---- MODULE Spec2Model ----
(***************************************************************************)
(* MinMind: plan parser / marker rewriter, the `todo` commands (sync,      *)
(* complete, start, skip, add) over the user_actions table, and the plan   *)
(* files they read and rewrite.                                            *)
(*                                                                         *)
(* Text is modelled as sequences of one-character strings, so that the     *)
(* parser and the rewriter are computed the way the Rust code computes     *)
(* them (lines(), trim(), find(), to_lowercase(), join("\n")).             *)
(***************************************************************************)
EXTENDS Naturals, Integers, Sequences, FiniteSets, TLC

(***************************************************************************)
(* Bounds of the model.                                                    *)
(***************************************************************************)
\* Plan file contents offered to the editor have at most MaxLines lines.
MaxLines == 2
\* The clock stops the exploration after MaxClock commands and edits.
MaxClock == 3

\* the commands given to the review dashboard in one run
MaxDashSteps == 2

(***************************************************************************)
(* Option<T>: None is 0 for line numbers and timestamps (both start at 1   *)
(* when present) and the empty path for source_file.                       *)
(***************************************************************************)
NoLine == 0

NoTime == 0

NoFile == ""

(***************************************************************************)
(* Characters and strings.                                                 *)
(***************************************************************************)
\* char::is_whitespace, restricted to the characters the model uses
IsWhitespace(c) == c \in {" ", "\t", "\r", "\n"}

\* char::to_lowercase on the letters that occur in marker tokens
LowerChar(c) ==
    CASE c = "U" -> "u"
      [] c = "S" -> "s"
      [] c = "E" -> "e"
      [] c = "R" -> "r"
      [] c = "D" -> "d"
      [] c = "O" -> "o"
      [] c = "N" -> "n"
      [] c = "W" -> "w"
      [] c = "I" -> "i"
      [] c = "P" -> "p"
      [] c = "K" -> "k"
      [] OTHER -> c

\* str::to_lowercase
ToLowercase(s) == [i \in 1..Len(s) |-> LowerChar(s[i])]

\* str::starts_with
StartsWith(s, pat) ==
    /\ Len(s) >= Len(pat)
    /\ SubSeq(s, 1, Len(pat)) = pat

RECURSIVE FindFrom(_, _, _)
\* first index i >= from at which pat occurs in s, 0 when there is none
FindFrom(s, pat, from) ==
    IF from + Len(pat) - 1 > Len(s) THEN 0
    ELSE IF SubSeq(s, from, from + Len(pat) - 1) = pat THEN from
    ELSE FindFrom(s, pat, from + 1)

\* str::find: 1-based index of the first occurrence, 0 for None
Find(s, pat) == FindFrom(s, pat, 1)

RECURSIVE TrimStart(_)
\* str::trim_start
TrimStart(s) ==
    IF s # <<>> /\ IsWhitespace(Head(s)) THEN TrimStart(Tail(s)) ELSE s

RECURSIVE TrimEnd(_)
\* str::trim_end
TrimEnd(s) ==
    IF s # <<>> /\ IsWhitespace(s[Len(s)])
    THEN TrimEnd(SubSeq(s, 1, Len(s) - 1))
    ELSE s

\* str::trim
Trim(s) == TrimEnd(TrimStart(s))

RECURSIVE TrimStartDashWs(_)
\* line.trim_start_matches(|c| c == '-' || c.is_whitespace())
TrimStartDashWs(s) ==
    IF s # <<>> /\ (Head(s) = "-" \/ IsWhitespace(Head(s)))
    THEN TrimStartDashWs(Tail(s))
    ELSE s

RECURSIVE SplitInclusive(_)
\* str::split_inclusive('\n'): the pieces keep their terminating "\n"
SplitInclusive(s) ==
    IF s = <<>> THEN <<>>
    ELSE LET nl == Find(s, <<"\n">>)
         IN  IF nl = 0 THEN <<s>>
             ELSE <<SubSeq(s, 1, nl)>> \o SplitInclusive(SubSeq(s, nl + 1, Len(s)))

\* one item of str::lines(): strip a final "\n", then a "\r" before it
StripLineEnding(piece) ==
    IF piece # <<>> /\ piece[Len(piece)] = "\n"
    THEN LET l == SubSeq(piece, 1, Len(piece) - 1)
         IN  IF l # <<>> /\ l[Len(l)] = "\r" THEN SubSeq(l, 1, Len(l) - 1) ELSE l
    ELSE piece

\* str::lines()
Lines(content) ==
    LET pieces == SplitInclusive(content)
    IN  [i \in 1..Len(pieces) |-> StripLineEnding(pieces[i])]

RECURSIVE Join(_, _)
\* [String]::join(sep)
Join(ls, sep) ==
    IF ls = <<>> THEN <<>>
    ELSE IF Len(ls) = 1 THEN ls[1]
    ELSE ls[1] \o sep \o Join(Tail(ls), sep)

(***************************************************************************)
(* ActionStatus and its text forms.                                        *)
(***************************************************************************)
ActionStatus == {"Pending", "InProgress", "Completed", "Skipped"}

\* Display writing the marker's word for InProgress, which FromStr does not read
ActionStatusDisplay_Wip(st) ==
    CASE st = "Pending" -> "pending"
      [] st = "InProgress" -> "wip"
      [] st = "Completed" -> "completed"
      [] st = "Skipped" -> "skipped"

\* impl Display for ActionStatus: the text stored in user_actions.status
ActionStatusDisplay(st) ==
    CASE st = "Pending" -> "pending"
      [] st = "InProgress" -> "in_progress"
      [] st = "Completed" -> "completed"
      [] st = "Skipped" -> "skipped"

\* impl FromStr for ActionStatus, followed by the store's
\* unwrap_or(ActionStatus::Pending); the stored text is already lowercase
ActionStatusFromStr(txt) ==
    CASE txt = "pending" -> "Pending"
      [] txt \in {"in_progress", "inprogress"} -> "InProgress"
      [] txt \in {"completed", "done"} -> "Completed"
      [] txt \in {"skipped", "skip"} -> "Skipped"
      [] OTHER -> "Pending"

(***************************************************************************)
(* Marker tokens.                                                          *)
(***************************************************************************)
MarkerOpen == <<"[", "U", "S", "E", "R">>

MarkerPending == <<"[", "U", "S", "E", "R", "]">>

MarkerWip == <<"[", "U", "S", "E", "R", ":", "w", "i", "p", "]">>

MarkerDone == <<"[", "U", "S", "E", "R", ":", "d", "o", "n", "e", "]">>

MarkerSkip == <<"[", "U", "S", "E", "R", ":", "s", "k", "i", "p", "]">>

\* the match without the alias tokens: only the four canonical tokens
MarkerStatus_NoAliases(marker) ==
    LET m == ToLowercase(marker)
    IN  CASE m = <<"[", "u", "s", "e", "r", "]">> -> "Pending"
          [] m = <<"[", "u", "s", "e", "r", ":", "w", "i", "p", "]">> -> "InProgress"
          [] m = <<"[", "u", "s", "e", "r", ":", "d", "o", "n", "e", "]">> -> "Completed"
          [] m = <<"[", "u", "s", "e", "r", ":", "s", "k", "i", "p", "]">> -> "Skipped"
          [] OTHER -> "Pending"

\* the match on marker.to_lowercase() in parse_user_marker
MarkerStatus(marker) ==
    LET m == ToLowercase(marker)
    IN  CASE m = <<"[", "u", "s", "e", "r", "]">> -> "Pending"
          [] m \in { <<"[", "u", "s", "e", "r", ":", "w", "i", "p", "]">>,
                     <<"[", "u", "s", "e", "r", ":", "i", "n", "p", "r", "o", "g", "r", "e", "s", "s", "]">>,
                     <<"[", "u", "s", "e", "r", ":", "i", "n", "_", "p", "r", "o", "g", "r", "e", "s", "s", "]">> }
               -> "InProgress"
          [] m \in { <<"[", "u", "s", "e", "r", ":", "d", "o", "n", "e", "]">>,
                     <<"[", "u", "s", "e", "r", ":", "c", "o", "m", "p", "l", "e", "t", "e", "d", "]">> }
               -> "Completed"
          [] m \in { <<"[", "u", "s", "e", "r", ":", "s", "k", "i", "p", "]">>,
                     <<"[", "u", "s", "e", "r", ":", "s", "k", "i", "p", "p", "e", "d", "]">> }
               -> "Skipped"
          [] OTHER -> "Pending"

(***************************************************************************)
(* parse_user_marker / parse_plan_content                                  *)
(***************************************************************************)
\* parse_user_marker without the test for an empty title
parse_user_marker_KeepsEmptyTitle(line0, line_number) ==
    LET line == TrimStartDashWs(line0)
    IN  IF ~StartsWith(line, MarkerOpen) THEN <<>>
        ELSE LET close_bracket == Find(line, <<"]">>)
             IN  IF close_bracket = 0 THEN <<>>
                 ELSE LET marker == SubSeq(line, 1, close_bracket)
                          title  == Trim(SubSeq(line, close_bracket + 1, Len(line)))
                      IN  << [title |-> title,
                              line_number |-> line_number,
                              status |-> MarkerStatus(marker)] >>

\* Option<ParsedAction>: <<>> for None, a one-element sequence for Some
parse_user_marker(line0, line_number) ==
    LET line == TrimStartDashWs(line0)
    IN  IF ~StartsWith(line, MarkerOpen) THEN <<>>
        ELSE LET close_bracket == Find(line, <<"]">>)
             IN  IF close_bracket = 0 THEN <<>>
                 ELSE LET marker == SubSeq(line, 1, close_bracket)
                          title  == Trim(SubSeq(line, close_bracket + 1, Len(line)))
                      IN  IF title = <<>> THEN <<>>
                          ELSE << [title |-> title,
                                   line_number |-> line_number,
                                   status |-> MarkerStatus(marker)] >>

RECURSIVE ParseLines(_, _)
\* the loop of parse_plan_content over content.lines().enumerate(), from idx
ParseLines(ls, idx) ==
    IF idx > Len(ls) THEN <<>>
    ELSE parse_user_marker(Trim(ls[idx]), idx) \o ParseLines(ls, idx + 1)

\* ParseResult.actions of parse_plan_content(content, source_file)
parse_plan_content(content) == ParseLines(Lines(content), 1)

(***************************************************************************)
(* update_line_marker / update_plan_markers                                *)
(***************************************************************************)
\* markers written in lowercase, which starts_with("[USER") does not accept
NewMarker_Lowercase(new_status) ==
    CASE new_status = "Pending" -> ToLowercase(MarkerPending)
      [] new_status = "InProgress" -> ToLowercase(MarkerWip)
      [] new_status = "Completed" -> ToLowercase(MarkerDone)
      [] new_status = "Skipped" -> ToLowercase(MarkerSkip)

\* the canonical marker written for a status
NewMarker(new_status) ==
    CASE new_status = "Pending" -> MarkerPending
      [] new_status = "InProgress" -> MarkerWip
      [] new_status = "Completed" -> MarkerDone
      [] new_status = "Skipped" -> MarkerSkip

\* the rewritten line without the text before the token
update_line_marker_FromLineStart(line, new_status) ==
    LET start == Find(line, MarkerOpen)
    IN  IF start = 0 THEN line
        ELSE LET end == FindFrom(line, <<"]">>, start)
             IN  IF end = 0 THEN line
                 ELSE NewMarker(new_status) \o SubSeq(line, end + 1, Len(line))

update_line_marker(line, new_status) ==
    LET start == Find(line, MarkerOpen)
    IN  IF start = 0 THEN line
        ELSE LET end == FindFrom(line, <<"]">>, start)
             IN  IF end = 0 THEN line
                 ELSE SubSeq(line, 1, start - 1) \o NewMarker(new_status)
                        \o SubSeq(line, end + 1, Len(line))

\* updates.iter().cloned().collect::<HashMap>(): the last pair of a key wins;
\* the result is <<>> for a missing key and <<status>> for a present one
UpdatesGet(updates, line_number) ==
    LET hits == {i \in 1..Len(updates) : updates[i][1] = line_number}
    IN  IF hits = {} THEN <<>>
        ELSE <<updates[CHOOSE i \in hits : \A j \in hits : j <= i][2]>>

\* updates: a sequence of <<line_number, status>> pairs
update_plan_markers(content, updates) ==
    LET ls == Lines(content)
        out == [i \in 1..Len(ls) |->
                  IF UpdatesGet(updates, i) # <<>>
                  THEN update_line_marker(ls[i], UpdatesGet(updates, i)[1])
                  ELSE ls[i]]
    IN  Join(out, <<"\n">>)

(***************************************************************************)
(* UserAction and the user_actions table.                                  *)
(*                                                                         *)
(* A UserAction is a record [id, source_file, line_number, title, status,  *)
(* created_at, completed_at]; plan_id and description stay None in every   *)
(* `todo` command and are left out.  A stored row is the same record with  *)
(* the status in its text form.                                            *)
(***************************************************************************)
IdLetters == <<"a", "b">>

IdDigits == <<"1", "2", "3", "4", "5", "6", "7", "8", "9">>

\* Uuid::new_v4() for the n-th action created: ids are distinct, and ids of
\* the same parity share their first character (a common short-id prefix)
NewId(n) == <<IdLetters[(n % 2) + 1], IdDigits[(n \div 2) + 1]>>

\* UserAction::new
UserActionNew(id, title, t) ==
    [id |-> id, source_file |-> NoFile, line_number |-> NoLine, title |-> title,
     status |-> "Pending", created_at |-> t, completed_at |-> NoTime]

\* from_plan without the anchor: the line number is not stored
from_plan_NoAnchor(id, title, source_file, line_number, t) ==
    [UserActionNew(id, title, t) EXCEPT !.source_file = source_file]

\* UserAction::from_plan
from_plan(id, title, source_file, line_number, t) ==
    [UserActionNew(id, title, t) EXCEPT !.source_file = source_file,
                                        !.line_number = line_number]

\* start that also clears the completion time
start_ClearsCompletedAt(a) == [a EXCEPT !.status = "InProgress", !.completed_at = NoTime]

\* UserAction::start
start(a) == [a EXCEPT !.status = "InProgress"]

\* UserAction::complete
complete(a, t) == [a EXCEPT !.status = "Completed", !.completed_at = t]

\* UserAction::skip
skip(a) == [a EXCEPT !.status = "Skipped"]

\* is_done with the Skipped alternative forgotten
is_done_CompletedOnly(a) == a.status = "Completed"

\* UserAction::is_done
is_done(a) == a.status \in {"Completed", "Skipped"}

\* the row written for an action (params! of create/update_user_action)
ActionToRow(a) == [a EXCEPT !.status = ActionStatusDisplay(a.status)]

\* the UserAction built from a row by the store's query closures
RowToAction(r) == [r EXCEPT !.status = ActionStatusFromStr(r.status)]

\* marker() spelling the status as ActionStatus::as_str does
marker_FromAsStr(a) ==
    CASE a.status = "Pending" -> <<"[", "U", "S", "E", "R", "]">>
      [] a.status = "InProgress" ->
           <<"[", "U", "S", "E", "R", ":", "i", "n", "_", "p", "r", "o", "g", "r", "e", "s", "s", "]">>
      [] a.status = "Completed" -> <<"[", "U", "S", "E", "R", ":", "d", "o", "n", "e", "]">>
      [] a.status = "Skipped" -> <<"[", "U", "S", "E", "R", ":", "s", "k", "i", "p", "]">>

\* UserAction::marker
marker(a) ==
    CASE a.status = "Pending" -> <<"[", "U", "S", "E", "R", "]">>
      [] a.status = "InProgress" -> <<"[", "U", "S", "E", "R", ":", "w", "i", "p", "]">>
      [] a.status = "Completed" -> <<"[", "U", "S", "E", "R", ":", "d", "o", "n", "e", "]">>
      [] a.status = "Skipped" -> <<"[", "U", "S", "E", "R", ":", "s", "k", "i", "p", "]">>

\* Store::create_user_action: INSERT
create_user_action(db, a) == db \cup {ActionToRow(a)}

\* update_user_action with the wrong WHERE clause: every row of the
\* action's source file is written
update_user_action_BySource(db, a) ==
    {IF r.source_file = a.source_file
     THEN [ActionToRow(a) EXCEPT !.id = r.id, !.created_at = r.created_at,
                                 !.line_number = r.line_number]
     ELSE r : r \in db}

\* Store::update_user_action: UPDATE ... WHERE id = ?1 (created_at is not written)
update_user_action(db, a) ==
    {IF r.id = a.id THEN [ActionToRow(a) EXCEPT !.created_at = r.created_at] ELSE r : r \in db}

\* Store::get_user_action: <<>> or <<action>>
get_user_action(db, id) ==
    IF \E r \in db : r.id = id
    THEN <<RowToAction(CHOOSE r \in db : r.id = id)>>
    ELSE <<>>

\* Store::list_user_actions_by_source, as the set of actions returned
list_user_actions_by_source(db, source_file) ==
    {RowToAction(r) : r \in {x \in db : x.source_file = source_file}}

\* existing_map built with line_number.unwrap_or(1) instead of filter_map
ExistingMap_DefaultLine(existing) ==
    {[a EXCEPT !.line_number = IF @ = NoLine THEN 1 ELSE @] : a \in existing}

\* existing_map of the sync handler: the actions that have a line number
ExistingMap(existing) == {a \in existing : a.line_number # NoLine}

\* the lookup made with the 0-based index of the line
ExistingGet_ZeroBased(existing_map, line_number) ==
    LET hits == {a \in existing_map : a.line_number = line_number - 1}
    IN  IF hits = {} THEN <<>> ELSE <<CHOOSE a \in hits : TRUE>>

\* existing_map.get(&line_number): <<>> or <<action>>
ExistingGet(existing_map, line_number) ==
    LET hits == {a \in existing_map : a.line_number = line_number}
    IN  IF hits = {} THEN <<>> ELSE <<CHOOSE a \in hits : TRUE>>

(***************************************************************************)
(* The plans directory.                                                    *)
(*                                                                         *)
(* files[p] is [kind, content]: kind "file" is a readable regular .md      *)
(* file, "unreadable" one whose read_to_string fails, "absent" no file.    *)
(***************************************************************************)
Paths == {"plans/p.md", "plans/q.md"}

Titles == {<<"a">>, <<"b">>}

Bullet == <<"-", " ">>

\* the lines an editor may put into a plan file
LinePool ==
    { Bullet \o MarkerPending \o <<" ", "a">>,
      Bullet \o MarkerPending \o <<" ", "b">>,
      Bullet \o MarkerWip \o <<" ", "a">>,
      Bullet \o MarkerDone \o <<" ", "a">>,
      Bullet \o MarkerSkip \o <<" ", "a">>,
      <<"#", " ", "x">> }

RECURSIVE LineSeqs(_)
\* the sequences of exactly n lines of the pool
LineSeqs(n) ==
    IF n = 0 THEN {<<>>}
    ELSE {<<l>> \o ls : l \in LinePool, ls \in LineSeqs(n - 1)}

RECURSIVE Terminated(_)
\* the text of a sequence of lines, each ended by "\n"
Terminated(ls) ==
    IF ls = <<>> THEN <<>> ELSE ls[1] \o <<"\n">> \o Terminated(Tail(ls))

ContentPool == {Terminated(ls) : ls \in UNION {LineSeqs(n) : n \in 0..MaxLines}}

AbsentFile == [kind |-> "absent", content |-> <<>>]

UnreadableFile == [kind |-> "unreadable", content |-> <<>>]

RegularFile(content) == [kind |-> "file", content |-> content]

FilePool == {AbsentFile, UnreadableFile} \cup {RegularFile(c) : c \in ContentPool}

\* the orders in which read_dir may yield the entries
DirOrders ==
    {o \in [1..Cardinality(Paths) -> Paths] : \A i, j \in DOMAIN o : i # j => o[i] # o[j]}

(***************************************************************************)
(* `todo sync`: handle_todo_command, TodoCommands::Sync.                   *)
(*                                                                         *)
(* The run is an accumulator [db, found, new, updated, next_id, writes,    *)
(* ok]; ok becomes FALSE when the command returns an error through `?`.    *)
(* The store calls themselves are taken to succeed.                        *)
(***************************************************************************)
SyncStart(db, nid) ==
    [db |-> db, found |-> 0, new |-> 0, updated |-> 0, next_id |-> nid,
     writes |-> 0, ok |-> TRUE]

\* the condition under which a matched row is updated
NeedsUpdate(existing_action, parsed) ==
    \/ existing_action.title # parsed.title
    \/ (existing_action.status # parsed.status /\ ~is_done(existing_action))

\* the action written for a matched row, with the title only
UpdatedAction_TitleOnly(existing_action, parsed) ==
    [existing_action EXCEPT !.title = parsed.title]

\* the action written for a matched row
UpdatedAction(existing_action, parsed) ==
    LET updated == [existing_action EXCEPT !.title = parsed.title]
    IN  IF ~is_done(updated) THEN [updated EXCEPT !.status = parsed.status] ELSE updated

\* the body of `for parsed in result.actions` for one parsed action
SyncOne(acc, parsed, existing_map, source_file, t) ==
    LET hit == ExistingGet(existing_map, parsed.line_number)
    IN  IF hit # <<>>
        THEN IF NeedsUpdate(hit[1], parsed)
             THEN [acc EXCEPT !.db = update_user_action(@, UpdatedAction(hit[1], parsed)),
                              !.writes = @ + 1,
                              !.updated = @ + 1]
             ELSE acc
        ELSE LET action == [from_plan(NewId(acc.next_id), parsed.title, source_file,
                                      parsed.line_number, t)
                              EXCEPT !.status = parsed.status]
             IN  [acc EXCEPT !.db = create_user_action(@, action),
                             !.writes = @ + 1,
                             !.next_id = @ + 1,
                             !.new = @ + 1]

RECURSIVE SyncParsed(_, _, _, _, _, _)
\* `for parsed in result.actions`, from the k-th parsed action on
SyncParsed(acc, parsed_actions, k, existing_map, source_file, t) ==
    IF k > Len(parsed_actions) THEN acc
    ELSE SyncParsed(SyncOne(acc, parsed_actions[k], existing_map, source_file, t),
                    parsed_actions, k + 1, existing_map, source_file, t)

\* a sync that first deletes the file's rows (delete_user_actions_by_source)
\* and creates them again
SyncFile_Resync(acc, path, file, t) ==
    IF file.kind = "absent" THEN acc
    ELSE IF file.kind = "unreadable" THEN [acc EXCEPT !.ok = FALSE]
    ELSE LET parsed_actions == parse_plan_content(file.content)
         IN  IF parsed_actions = <<>> THEN acc
             ELSE SyncParsed([acc EXCEPT !.found = @ + Len(parsed_actions),
                                         !.db = {r \in @ : r.source_file # path}],
                             parsed_actions, 1, {}, path, t)

\* a sync that counts one found per file instead of one per parsed action
SyncFile_CountsFiles(acc, path, file, t) ==
    IF file.kind = "absent" THEN acc
    ELSE IF file.kind = "unreadable" THEN [acc EXCEPT !.ok = FALSE]
    ELSE LET parsed_actions == parse_plan_content(file.content)
         IN  IF parsed_actions = <<>> THEN acc
             ELSE SyncParsed([acc EXCEPT !.found = @ + 1],
                             parsed_actions, 1,
                             ExistingMap(list_user_actions_by_source(acc.db, path)),
                             path, t)

\* the body of `for entry in read_dir` for one entry
SyncFile(acc, path, file, t) ==
    IF file.kind = "absent" THEN acc
    ELSE IF file.kind = "unreadable" THEN [acc EXCEPT !.ok = FALSE]
    ELSE LET parsed_actions == parse_plan_content(file.content)
         IN  IF parsed_actions = <<>> THEN acc
             ELSE SyncParsed([acc EXCEPT !.found = @ + Len(parsed_actions)],
                             parsed_actions, 1,
                             ExistingMap(list_user_actions_by_source(acc.db, path)),
                             path, t)

RECURSIVE SyncDir(_, _, _, _, _)
\* `for entry in read_dir(&plans_dir)`, from the i-th entry of order on
SyncDir(acc, order, i, fs, t) ==
    IF ~acc.ok \/ i > Len(order) THEN acc
    ELSE SyncDir(SyncFile(acc, order[i], fs[order[i]], t), order, i + 1, fs, t)

\* one run of `todo sync`
SyncRun(db, fs, nid, order, t) == SyncDir(SyncStart(db, nid), order, 1, fs, t)

(***************************************************************************)
(* find_user_action and update_plan_file.                                  *)
(***************************************************************************)
\* the length of a full id, the only form Uuid::parse_str accepts
IdLen == Len(NewId(1))

\* the rows in which list_user_actions (ORDER BY created_at DESC) may come
\* first among those whose id starts with the argument
FirstMatches(db, id) ==
    LET m == {r \in db : StartsWith(r.id, id)}
    IN  {r \in m : \A o \in m : o.created_at <= r.created_at}

\* find_user_action: the actions it may return; empty for "Todo not found"
find_user_action(db, id) ==
    IF Len(id) = IdLen /\ get_user_action(db, id) # <<>>
    THEN {get_user_action(db, id)[1]}
    ELSE {RowToAction(r) : r \in FirstMatches(db, id)}

\* update_plan_file counting lines from 0
update_plan_file_ZeroBased(fs, source_file, line_number, new_status, write_ok) ==
    IF source_file \notin DOMAIN fs \/ fs[source_file].kind = "absent"
    THEN [fs |-> fs, ok |-> TRUE, calls |-> <<>>, read |-> <<>>]
    ELSE IF fs[source_file].kind = "unreadable"
    THEN [fs |-> fs, ok |-> FALSE, calls |-> <<"read_to_string">>, read |-> <<>>]
    ELSE LET text == fs[source_file].content
             updated == update_plan_markers(text, <<<<line_number + 1, new_status>>>>)
         IN  [fs |-> IF write_ok THEN [fs EXCEPT ![source_file] = RegularFile(updated)]
                     ELSE fs,
              ok |-> write_ok,
              calls |-> <<"read_to_string", "write">>,
              read |-> <<text>>]

\* update_plan_file: [fs, ok, calls, read]; write_ok tells whether
\* std::fs::write succeeds
update_plan_file(fs, source_file, line_number, new_status, write_ok) ==
    IF source_file \notin DOMAIN fs \/ fs[source_file].kind = "absent"
    THEN [fs |-> fs, ok |-> TRUE, calls |-> <<>>, read |-> <<>>]
    ELSE IF fs[source_file].kind = "unreadable"
    THEN [fs |-> fs, ok |-> FALSE, calls |-> <<"read_to_string">>, read |-> <<>>]
    ELSE LET text == fs[source_file].content
             updated == update_plan_markers(text, <<<<line_number, new_status>>>>)
         IN  [fs |-> IF write_ok THEN [fs EXCEPT ![source_file] = RegularFile(updated)]
                     ELSE fs,
              ok |-> write_ok,
              calls |-> <<"read_to_string", "write">>,
              read |-> <<text>>]

RECURSIVE Prefixes(_)
\* the prefixes of an id, the empty one and the full id included
Prefixes(id) ==
    IF id = <<>> THEN {<<>>} ELSE {id} \cup Prefixes(SubSeq(id, 1, Len(id) - 1))

\* the id arguments a user may type: prefixes of stored ids, and one that
\* matches nothing
IdArgs(db) == UNION {Prefixes(r.id) : r \in db} \cup {<<"z">>}

(***************************************************************************)
(* State.                                                                  *)
(***************************************************************************)
VARIABLES
    actions,   \* the rows of the user_actions table
    files,     \* the plan files of the directory
    now,       \* Utc::now(), one tick per command or edit
    next_id,   \* the number of ids generated so far, plus one
    last,      \* the last command and what it reported
    before,    \* history: the rows of the table when the last command began
    io         \* history: the argument and the store / file calls of the last
               \* complete, start or skip

\* The text given to the parser and the rewriter when they are exercised on
\* their own (RewriteSpec).
VARIABLES
    content,   \* the text, rewritten in place by each pass
    updates,   \* the update map, a sequence of <<line_number, status>> pairs
    original,  \* history: the text before the first pass
    passes,    \* the number of passes of update_plan_markers made so far
    parsed     \* <<>> or <<the result of parse_plan_content on content>>

\* The articles and the notes of the `article` commands (ArticleSpec); these
\* commands share the clock and the id generator with the `todo` commands.
VARIABLES
    articles,  \* the rows of the articles table
    notes,     \* the rows of the notes table
    alast,     \* the last article command, its outcome and its store calls
    abefore,   \* history: the articles when the last article command began
    aargs      \* history: the id and room arguments of the last article command

\* Commands that run as concurrent processes: procs[p] is the position and
\* the local variables of process p; the empty function when the commands
\* run one at a time.
VARIABLES
    procs

todo_vars == <<actions, files, now, next_id, last, before, io>>

rewrite_vars == <<content, updates, original, passes, parsed>>

article_vars == <<articles, notes, alast, abefore, aargs>>

conc_vars == <<procs>>

vars == <<todo_vars, rewrite_vars, article_vars, conc_vars>>

\* no concurrent process
ProcsIdle == procs = <<>>

Report(cmd, ok, found, new, updated, writes) ==
    [cmd |-> cmd, ok |-> ok, found |-> found, new |-> new, updated |-> updated,
     writes |-> writes]

\* io of a command that resolved no id: [arg, calls, read]; calls lists, in
\* order, the store and file-system calls made, read is <<>> or <<the text
\* read from the plan file>>
NoCall == [arg |-> <<>>, calls |-> <<>>, read |-> <<>>]

\* the text of RewriteSpec while the `todo` commands run: none
RewriteIdle ==
    /\ content = <<>>
    /\ updates = <<>>
    /\ original = <<>>
    /\ passes = 0
    /\ parsed = <<>>

\* the arguments of an article command: <id> and --room (empty when absent)
ArticleArgs(id, room) == [id |-> id, room |-> room]

\* what an article command reports: its name, whether it returned Ok, and the
\* store calls it made, in order
ArticleReport(cmd, ok, calls) == [cmd |-> cmd, ok |-> ok, calls |-> calls]

\* the article state while other commands run: no article, no note
ArticleIdle ==
    /\ articles = {}
    /\ notes = {}
    /\ alast = ArticleReport("init", TRUE, <<>>)
    /\ abefore = {}
    /\ aargs = ArticleArgs(<<>>, "")

\* the files the second plan file may hold
SecondFilePool ==
    {AbsentFile, UnreadableFile,
     RegularFile(Terminated(<<Bullet \o MarkerDone \o <<" ", "b">>>>))}

FilePoolOf(path) == IF path = "plans/p.md" THEN FilePool ELSE SecondFilePool

Init ==
    /\ actions = {}
    /\ \E c \in ContentPool :
          files = [p \in Paths |-> IF p = "plans/p.md" THEN RegularFile(c) ELSE AbsentFile]
    /\ now = 1
    /\ next_id = 1
    /\ last = Report("init", TRUE, 0, 0, 0, 0)
    /\ before = {}
    /\ io = NoCall
    /\ RewriteIdle
    /\ ArticleIdle
    /\ ProcsIdle

\* every command and every edit takes one tick of the clock; the `todo`
\* commands touch neither the text of RewriteSpec nor the articles
Tick ==
    /\ now <= MaxClock
    /\ now' = now + 1
    /\ before' = actions
    /\ UNCHANGED rewrite_vars
    /\ UNCHANGED article_vars
    /\ UNCHANGED conc_vars

(***************************************************************************)
(* Actions.                                                                *)
(***************************************************************************)
\* the user (or another program) replaces, removes or locks a plan file
EditFile(path, f) ==
    /\ Tick
    /\ f # files[path]
    /\ files' = [files EXCEPT ![path] = f]
    /\ last' = Report("edit", TRUE, 0, 0, 0, 0)
    /\ io' = NoCall
    /\ UNCHANGED <<actions, next_id>>

\* mm todo sync
TodoSync(order) ==
    /\ Tick
    /\ LET run == SyncRun(actions, files, next_id, order, now)
       IN  /\ actions' = run.db
           /\ next_id' = run.next_id
           /\ last' = Report("sync", run.ok, run.found, run.new, run.updated, run.writes)
    /\ io' = NoCall
    /\ UNCHANGED files

\* what complete / start / skip do to the action they found
ApplyStatus(cmd, a, t) ==
    CASE cmd = "complete" -> complete(a, t)
      [] cmd = "start" -> start(a)
      [] cmd = "skip" -> skip(a)

\* the body with the plan file rewritten before the row is saved
StatusCommand_FileFirst(cmd, id) ==
    /\ Tick
    /\ UNCHANGED next_id
    /\ IF find_user_action(actions, id) = {}
       THEN /\ last' = Report(cmd, FALSE, 0, 0, 0, 0)
            /\ io' = [NoCall EXCEPT !.arg = id]
            /\ UNCHANGED <<actions, files>>
       ELSE \E found \in find_user_action(actions, id) :
            \E store_ok, write_ok \in BOOLEAN :
              LET action == ApplyStatus(cmd, found, now)
                  anchored == action.source_file # NoFile /\ action.line_number # NoLine
                  upf == update_plan_file(files, action.source_file, action.line_number,
                                          action.status, write_ok)
                  file_ok == IF anchored THEN upf.ok ELSE TRUE
                  saved == file_ok /\ store_ok
              IN  /\ files' = IF anchored THEN upf.fs ELSE files
                  /\ actions' = IF saved THEN update_user_action(actions, action) ELSE actions
                  /\ last' = Report(cmd, saved, 0, 0, 0, IF saved THEN 1 ELSE 0)
                  /\ io' = [arg |-> id,
                            calls |-> (IF anchored THEN upf.calls ELSE <<>>)
                                        \o (IF file_ok THEN <<"update_user_action">> ELSE <<>>),
                            read |-> IF anchored THEN upf.read ELSE <<>>]

\* the body shared by TodoCommands::Complete, Start and Skip; store_ok tells
\* whether update_user_action succeeds, write_ok whether the file write does
StatusCommand(cmd, id) ==
    /\ Tick
    /\ UNCHANGED next_id
    /\ IF find_user_action(actions, id) = {}
       THEN /\ last' = Report(cmd, FALSE, 0, 0, 0, 0)
            /\ io' = [NoCall EXCEPT !.arg = id]
            /\ UNCHANGED <<actions, files>>
       ELSE \E found \in find_user_action(actions, id) :
            \E store_ok, write_ok \in BOOLEAN :
              LET action == ApplyStatus(cmd, found, now)
                  anchored == action.source_file # NoFile /\ action.line_number # NoLine
                  upf == update_plan_file(files, action.source_file, action.line_number,
                                          action.status, write_ok)
              IN  IF ~store_ok
                  THEN /\ last' = Report(cmd, FALSE, 0, 0, 0, 0)
                       /\ io' = [arg |-> id, calls |-> <<"update_user_action">>,
                                 read |-> <<>>]
                       /\ UNCHANGED <<actions, files>>
                  ELSE /\ actions' = update_user_action(actions, action)
                       /\ files' = IF anchored THEN upf.fs ELSE files
                       /\ last' = Report(cmd, IF anchored THEN upf.ok ELSE TRUE, 0, 0, 0, 1)
                       /\ io' = [arg |-> id,
                                 calls |-> <<"update_user_action">>
                                             \o (IF anchored THEN upf.calls ELSE <<>>),
                                 read |-> IF anchored THEN upf.read ELSE <<>>]

\* mm todo complete <id>
TodoComplete(id) == StatusCommand("complete", id)

\* mm todo start <id>
TodoStart(id) == StatusCommand("start", id)

\* mm todo skip <id>
TodoSkip(id) == StatusCommand("skip", id)

\* mm todo add <title> [--plan <file>]
TodoAdd(title, plan) ==
    /\ Tick
    /\ LET a == UserActionNew(NewId(next_id), title, now)
           action == IF plan # NoFile THEN [a EXCEPT !.source_file = plan] ELSE a
       IN  actions' = create_user_action(actions, action)
    /\ last' = Report("add", TRUE, 0, 0, 0, 1)
    /\ next_id' = next_id + 1
    /\ io' = NoCall
    /\ UNCHANGED files

\* the titles and plan files given to `todo add`
AddTitles == {<<"m">>}

AddPlans == {NoFile, "plans/p.md"}

Next ==
    \/ \E path \in Paths : \E f \in FilePoolOf(path) : EditFile(path, f)
    \/ \E order \in DirOrders : TodoSync(order)
    \/ \E id \in IdArgs(actions) : TodoComplete(id)
    \/ \E id \in IdArgs(actions) : TodoStart(id)
    \/ \E id \in IdArgs(actions) : TodoSkip(id)
    \/ \E title \in AddTitles : \E plan \in AddPlans : TodoAdd(title, plan)

Spec == Init /\ [][Next]_vars

(***************************************************************************)
(* The parser and the rewriter on their own: parse_plan_content and        *)
(* update_plan_markers applied to a text and an update map.                *)
(***************************************************************************)
\* the lines of the texts: canonical, alias, unknown and mixed-case marker
\* tokens, a marker token after other text, and a line without any
TextLines ==
    { Bullet \o MarkerPending \o <<" ", "a">>,
      Bullet \o <<"[", "U", "S", "E", "R", ":", "c", "o", "m", "p", "l", "e", "t", "e", "d", "]">>
             \o <<" ", "b">>,
      Bullet \o <<"[", "U", "S", "E", "R", ":", "f", "o", "o", "]", " ", "a">>,
      Bullet \o <<"[", "U", "S", "E", "R", ":", "D", "O", "N", "E", "]", " ", "a">>,
      Bullet \o <<"[", "u", "s", "e", "r", ":", "d", "o", "n", "e", "]", " ", "a">>,
      Bullet \o <<"[", "U", "s", "e", "r", ":", "D", "o", "n", "e", "]", " ", "a">>,
      <<"x", " ">> \o MarkerPending \o <<" ", "y">>,
      <<"#", " ", "x">> }

\* line terminators: LF, CRLF, and CRLF after a stray carriage return
Terminators == { <<"\n">>, <<"\r", "\n">>, <<"\r", "\r", "\n">> }

RECURSIVE TextsOf(_)
\* the texts of exactly n lines; the last line may lack its terminator
TextsOf(n) ==
    IF n = 0 THEN {<<>>}
    ELSE IF n = 1 THEN {l \o e : l \in TextLines, e \in Terminators \cup {<<>>}}
    ELSE {l \o e \o rest : l \in TextLines, e \in Terminators, rest \in TextsOf(n - 1)}

TextPool == UNION {TextsOf(n) : n \in 0..MaxLines}

\* further single lines: every token of the status table, checkbox lines,
\* marker lines with an empty or blank title, bullets that are not one dash
\* and a space, an indented and a bare marker, an unclosed token, and a
\* token between other brackets
ProbeLines ==
    {
      <<"-", " ", "[", "U", "S", "E", "R", ":", "w", "i", "p", "]", " ", "a">>,
      <<"-", " ", "[", "U", "S", "E", "R", ":", "i", "n", "p", "r", "o", "g", "r", "e", "s", "s", "]", " ", "a">>,
      <<"-", " ", "[", "U", "S", "E", "R", ":", "i", "n", "_", "p", "r", "o", "g", "r", "e", "s", "s", "]", " ", "a">>,
      <<"-", " ", "[", "U", "S", "E", "R", ":", "d", "o", "n", "e", "]", " ", "a">>,
      <<"-", " ", "[", "U", "S", "E", "R", ":", "s", "k", "i", "p", "]", " ", "a">>,
      <<"-", " ", "[", "U", "S", "E", "R", ":", "s", "k", "i", "p", "p", "e", "d", "]", " ", "a">>,
      <<"-", " ", "[", "U", "S", "E", "R", ":", "S", "k", "i", "p", "p", "e", "d", "]", " ", "a">>,
      <<"-", " ", "[", "U", "S", "E", "R", "S", "]", " ", "a">>,
      <<"-", " ", "[", " ", "]", " ", "x">>,
      <<"-", " ", "[", "x", "]", " ", "x">>,
      <<"-", " ", "[", "U", "S", "E", "R", ":", "w", "i", "p", "]", " ">>,
      <<"-", " ", "[", "U", "S", "E", "R", "]">>,
      <<"-", "[", "U", "S", "E", "R", "]", " ", "a">>,
      <<"-", "-", " ", "[", "U", "S", "E", "R", "]", " ", "a">>,
      <<"-", " ", "-", " ", "[", "U", "S", "E", "R", "]", " ", "a">>,
      <<" ", " ", "-", " ", "[", "U", "S", "E", "R", "]", " ", "a">>,
      <<"[", "U", "S", "E", "R", "]", " ", "a">>,
      <<"-", " ", "[", "U", "S", "E", "R", " ", "a">>,
      <<"x", "]", " ", "[", "U", "S", "E", "R", ":", "w", "i", "p", "]", " ", "a", "]", " ", "b">> }

\* the probe lines as one-line texts, and as the second line of a text whose
\* first line yields no action
ProbePool ==
    {l \o e : l \in ProbeLines, e \in {<<>>, <<"\n">>}}
      \cup {first \o <<"\n">> \o l : first \in {<<"-", " ", "[", "U", "S", "E", "R", ":", "w", "i", "p", "]", " ">>, <<"-", "-", " ", "x">>},
                                     l \in ProbeLines}

RECURSIVE UpdatesUpTo(_)
\* the update maps with keys among the lines 1..n, as slices of pairs
UpdatesUpTo(n) ==
    IF n = 0 THEN {<<>>}
    ELSE UNION {{u} \cup {u \o <<<<n, st>>>> : st \in ActionStatus} : u \in UpdatesUpTo(n - 1)}

UpdatePool == UpdatesUpTo(MaxLines)

\* the `todo` state while the parser and the rewriter run on their own
TodoIdle ==
    /\ actions = {}
    /\ files = [p \in Paths |-> AbsentFile]
    /\ now = 1
    /\ next_id = 1
    /\ last = Report("init", TRUE, 0, 0, 0, 0)
    /\ before = {}
    /\ io = NoCall

RewriteInit ==
    /\ TodoIdle
    /\ ArticleIdle
    /\ ProcsIdle
    /\ content \in TextPool \cup ProbePool
    /\ updates \in UpdatePool
    /\ original = content
    /\ passes = 0
    /\ parsed = <<>>

\* parse_plan_content(content, source_file)
Parse ==
    /\ parsed = <<>>
    /\ parsed' = <<parse_plan_content(content)>>
    /\ UNCHANGED <<content, updates, original, passes>>
    /\ UNCHANGED todo_vars
    /\ UNCHANGED article_vars
    /\ UNCHANGED conc_vars

\* content = update_plan_markers(&content, &updates), at most twice
Rewrite ==
    /\ passes \in {0, 1}
    /\ content' = update_plan_markers(content, updates)
    /\ passes' = passes + 1
    /\ parsed' = <<>>
    /\ UNCHANGED <<updates, original>>
    /\ UNCHANGED todo_vars
    /\ UNCHANGED article_vars
    /\ UNCHANGED conc_vars

RewriteNext == Parse \/ Rewrite

RewriteSpec == RewriteInit /\ [][RewriteNext]_vars

(***************************************************************************)
(* Article and the articles table.                                         *)
(*                                                                         *)
(* An Article is a record [id, url, title, raw_content, summary, room_id,  *)
(* status, created_at, updated_at]; source_metadata plays no part in the   *)
(* commands modelled and is left out.  summary is <<>> for None and        *)
(* <<text>> for Some(text).  A stored row is the same record with the      *)
(* status in its text form.                                                *)
(***************************************************************************)
ArticleStatus == {"Pending", "Summarized", "Reviewed", "Archived"}

\* impl Display for ArticleStatus: the text stored in articles.status
ArticleStatusDisplay(st) ==
    CASE st = "Pending" -> "pending"
      [] st = "Summarized" -> "summarized"
      [] st = "Reviewed" -> "reviewed"
      [] st = "Archived" -> "archived"

\* impl FromStr for ArticleStatus, followed by the store's
\* unwrap_or(ArticleStatus::Pending); the stored text is already lowercase
ArticleStatusFromStr(txt) ==
    CASE txt = "pending" -> "Pending"
      [] txt = "summarized" -> "Summarized"
      [] txt = "reviewed" -> "Reviewed"
      [] txt = "archived" -> "Archived"
      [] OTHER -> "Pending"

NoRoom == ""

NoSummary == <<>>

\* Article::new
ArticleNew(id, url, title, raw_content, t) ==
    [id |-> id, url |-> url, title |-> title, raw_content |-> raw_content,
     summary |-> NoSummary, room_id |-> NoRoom, status |-> "Pending",
     created_at |-> t, updated_at |-> t]

\* Article::with_room
with_room(a, room_id) == [a EXCEPT !.room_id = room_id]

\* set_summary that flips the status without storing the text
set_summary_StatusOnly(a, summary, t) ==
    [a EXCEPT !.status = "Summarized", !.updated_at = t]

\* Article::set_summary
set_summary(a, summary, t) ==
    [a EXCEPT !.summary = <<summary>>, !.status = "Summarized", !.updated_at = t]

\* Article::mark_reviewed
mark_reviewed(a, t) == [a EXCEPT !.status = "Reviewed", !.updated_at = t]

\* Article::archive
archive(a, t) == [a EXCEPT !.status = "Archived", !.updated_at = t]

\* the row written for an article (params! of create/update_article)
ArticleToRow(a) == [a EXCEPT !.status = ArticleStatusDisplay(a.status)]

\* the Article built from a row by the store's query closures
RowToArticle(r) == [r EXCEPT !.status = ArticleStatusFromStr(r.status)]

\* Store::create_article: INSERT
create_article(db, a) == db \cup {ArticleToRow(a)}

\* Store::update_article: UPDATE ... WHERE id = ?1 (url and created_at are
\* not written)
update_article(db, a) ==
    {IF r.id = a.id
     THEN [ArticleToRow(a) EXCEPT !.url = r.url, !.created_at = r.created_at]
     ELSE r : r \in db}

\* Store::delete_article
delete_article(db, id) == {r \in db : r.id # id}

\* Store::get_article: <<>> or <<article>>
get_article(db, id) ==
    IF \E r \in db : r.id = id
    THEN <<RowToArticle(CHOOSE r \in db : r.id = id)>>
    ELSE <<>>

\* Store::get_article_by_url(url).is_some()
get_article_by_url(db, url) == \E r \in db : r.url = url

\* the rows which list_articles (ORDER BY updated_at DESC) may yield first
\* among those whose id starts with the argument
FirstArticleMatches(db, id) ==
    LET m == {r \in db : StartsWith(r.id, id)}
    IN  {r \in m : \A o \in m : o.updated_at <= r.updated_at}

\* find_article: the articles it may return; empty for "Article not found"
find_article(db, id) ==
    IF Len(id) = IdLen /\ get_article(db, id) # <<>>
    THEN {get_article(db, id)[1]}
    ELSE {RowToArticle(r) : r \in FirstArticleMatches(db, id)}

\* the rooms table: two rooms
Rooms == {[id |-> "room-1", name |-> "r"], [id |-> "room-2", name |-> "q"]}

\* str::eq_ignore_ascii_case on the room names used
AsciiLower(name) == IF name = "R" THEN "r" ELSE name

\* find_room_id by name: the ids it may return; empty for "Room not found"
find_room_id(room) == {r.id : r \in {x \in Rooms : AsciiLower(x.name) = AsciiLower(room)}}

\* Note::new(room_id, title, NoteType::Reference).with_content(content)
NoteNew(id, room_id, title, body, t) ==
    [id |-> id, room_id |-> room_id, title |-> title, content |-> body,
     note_type |-> "reference", created_at |-> t]

\* the note body with the source/content template whatever the summary
NoteContent_SourceOnly(article) ==
    <<"## Source\n\n", article.url, "\n\n## Content\n\n", article.raw_content>>

\* the note body of approve, as the pieces format! puts together
NoteContent(article) ==
    IF article.summary # NoSummary
    THEN <<"## Summary\n\n", article.summary[1], "\n\n## Source\n\n", article.url,
           "\n\n## Full Content\n\n", article.raw_content>>
    ELSE <<"## Source\n\n", article.url, "\n\n## Content\n\n", article.raw_content>>

\* create_note that keeps one note per room and title
create_note_OncePerTitle(db, note) ==
    IF \E n \in db : n.room_id = note.room_id /\ n.title = note.title
    THEN db
    ELSE db \cup {note}

\* Store::create_note: INSERT
create_note(db, note) == db \cup {note}

(***************************************************************************)
(* The `article` commands: handle_article_command.                         *)
(***************************************************************************)
\* every article command takes one tick of the clock and touches neither
\* the todo table, the plan files nor the text of RewriteSpec
ArticleTick ==
    /\ now <= MaxClock
    /\ now' = now + 1
    /\ abefore' = articles
    /\ UNCHANGED <<actions, files, last, before, io>>
    /\ UNCHANGED rewrite_vars
    /\ UNCHANGED conc_vars

\* the command fails before it writes anything
ArticleFails(cmd, calls) ==
    /\ alast' = ArticleReport(cmd, FALSE, calls)
    /\ UNCHANGED <<articles, notes, next_id>>

\* json["title"].as_str().unwrap_or("Untitled"): the page of u1 carries a
\* title, the page of every other url carries none
ExtractedTitle(url) == IF url = "u1" THEN "t" ELSE "Untitled"

\* mm article add <url> [--room <room>]; extract_ok tells whether the
\* extractor subprocess succeeds
ArticleAdd(url, room, extract_ok) ==
    /\ ArticleTick
    /\ aargs' = ArticleArgs(<<>>, room)
    /\ IF get_article_by_url(articles, url)
       THEN ArticleFails("add", <<"get_article_by_url">>)
       ELSE IF ~extract_ok
       THEN ArticleFails("add", <<"get_article_by_url">>)
       ELSE IF room # NoRoom /\ find_room_id(room) = {}
       THEN ArticleFails("add", <<"get_article_by_url", "list_rooms">>)
       ELSE LET a == ArticleNew(NewId(next_id), url, ExtractedTitle(url), "c", now)
                article == IF room # NoRoom
                           THEN with_room(a, CHOOSE rid \in find_room_id(room) : TRUE)
                           ELSE a
            IN  /\ articles' = create_article(articles, article)
                /\ next_id' = next_id + 1
                /\ alast' = ArticleReport("add", TRUE,
                                <<"get_article_by_url">>
                                  \o (IF room # NoRoom THEN <<"list_rooms">> ELSE <<>>)
                                  \o <<"create_article">>)
                /\ UNCHANGED notes

\* mm article summarize <id>; run_ok tells whether the summarizer
\* subprocess succeeds, summary is the text it returns, store_ok whether
\* update_article succeeds
ArticleSummarize(id, run_ok, summary, store_ok) ==
    /\ ArticleTick
    /\ aargs' = ArticleArgs(id, NoRoom)
    /\ IF find_article(articles, id) = {}
       THEN ArticleFails("summarize", <<>>)
       ELSE IF ~run_ok
       THEN ArticleFails("summarize", <<"get_active_summary_config">>)
       ELSE \E found \in find_article(articles, id) :
              LET article == set_summary(found, summary, now)
              IN  IF ~store_ok
                  THEN ArticleFails("summarize",
                                    <<"get_active_summary_config", "update_article">>)
                  ELSE /\ articles' = update_article(articles, article)
                       /\ alast' = ArticleReport("summarize", TRUE,
                                       <<"get_active_summary_config", "update_article">>)
                       /\ UNCHANGED <<notes, next_id>>

\* approve with the two writes in the other order: the status write first,
\* the note insert second
ArticleApprove_StatusFirst(id, room, note_ok, store_ok) ==
    /\ ArticleTick
    /\ aargs' = ArticleArgs(id, room)
    /\ IF find_article(articles, id) = {}
       THEN ArticleFails("approve", <<>>)
       ELSE \E found \in find_article(articles, id) :
              LET targets == IF room # NoRoom THEN find_room_id(room)
                             ELSE IF found.room_id # NoRoom THEN {found.room_id}
                             ELSE {}
                  lookup == IF room # NoRoom THEN <<"list_rooms">> ELSE <<>>
              IN  IF targets = {}
                  THEN ArticleFails("approve", lookup)
                  ELSE IF ~store_ok
                  THEN ArticleFails("approve", lookup \o <<"update_article">>)
                  ELSE \E target_room_id \in targets :
                         LET note == NoteNew(NewId(next_id), target_room_id, found.title,
                                             NoteContent(found), now)
                             article == mark_reviewed(found, now)
                         IN  /\ articles' = update_article(articles, article)
                             /\ notes' = IF note_ok THEN create_note(notes, note) ELSE notes
                             /\ next_id' = IF note_ok THEN next_id + 1 ELSE next_id
                             /\ alast' = ArticleReport("approve", note_ok,
                                             lookup \o <<"update_article", "create_note">>)

\* approve with the two writes in one transaction: when the status write
\* fails the note insert is rolled back
ArticleApprove_Transactional(id, room, note_ok, store_ok) ==
    /\ ArticleTick
    /\ aargs' = ArticleArgs(id, room)
    /\ IF find_article(articles, id) = {}
       THEN ArticleFails("approve", <<>>)
       ELSE \E found \in find_article(articles, id) :
              LET targets == IF room # NoRoom THEN find_room_id(room)
                             ELSE IF found.room_id # NoRoom THEN {found.room_id}
                             ELSE {}
                  lookup == IF room # NoRoom THEN <<"list_rooms">> ELSE <<>>
              IN  IF targets = {}
                  THEN ArticleFails("approve", lookup)
                  ELSE IF ~note_ok
                  THEN ArticleFails("approve", lookup \o <<"create_note">>)
                  ELSE IF ~store_ok
                  THEN ArticleFails("approve", lookup \o <<"create_note", "update_article">>)
                  ELSE \E target_room_id \in targets :
                         LET note == NoteNew(NewId(next_id), target_room_id, found.title,
                                             NoteContent(found), now)
                             article == mark_reviewed(found, now)
                         IN  /\ notes' = create_note(notes, note)
                             /\ next_id' = next_id + 1
                             /\ articles' = update_article(articles, article)
                             /\ alast' = ArticleReport("approve", TRUE,
                                             lookup \o <<"create_note", "update_article">>)

\* mm article approve <id> [--room <room>]; note_ok tells whether
\* create_note succeeds, store_ok whether update_article does
ArticleApprove(id, room, note_ok, store_ok) ==
    /\ ArticleTick
    /\ aargs' = ArticleArgs(id, room)
    /\ IF find_article(articles, id) = {}
       THEN ArticleFails("approve", <<>>)
       ELSE \E found \in find_article(articles, id) :
              LET targets == IF room # NoRoom THEN find_room_id(room)
                             ELSE IF found.room_id # NoRoom THEN {found.room_id}
                             ELSE {}
                  lookup == IF room # NoRoom THEN <<"list_rooms">> ELSE <<>>
              IN  IF targets = {}
                  THEN ArticleFails("approve", lookup)
                  ELSE IF ~note_ok
                  THEN ArticleFails("approve", lookup \o <<"create_note">>)
                  ELSE \E target_room_id \in targets :
                         LET note == NoteNew(NewId(next_id), target_room_id, found.title,
                                             NoteContent(found), now)
                             article == mark_reviewed(found, now)
                         IN  /\ notes' = create_note(notes, note)
                             /\ next_id' = next_id + 1
                             /\ articles' = IF store_ok THEN update_article(articles, article)
                                            ELSE articles
                             /\ alast' = ArticleReport("approve", store_ok,
                                             lookup \o <<"create_note", "update_article">>)

\* mm article archive <id>
ArticleArchive(id, store_ok) ==
    /\ ArticleTick
    /\ aargs' = ArticleArgs(id, NoRoom)
    /\ IF find_article(articles, id) = {}
       THEN ArticleFails("archive", <<>>)
       ELSE \E found \in find_article(articles, id) :
              IF ~store_ok
              THEN ArticleFails("archive", <<"update_article">>)
              ELSE /\ articles' = update_article(articles, archive(found, now))
                   /\ alast' = ArticleReport("archive", TRUE, <<"update_article">>)
                   /\ UNCHANGED <<notes, next_id>>

\* mm article delete <id>
ArticleDelete(id) ==
    /\ ArticleTick
    /\ aargs' = ArticleArgs(id, NoRoom)
    /\ IF find_article(articles, id) = {}
       THEN ArticleFails("delete", <<>>)
       ELSE \E found \in find_article(articles, id) :
              /\ articles' = delete_article(articles, found.id)
              /\ alast' = ArticleReport("delete", TRUE, <<"delete_article">>)
              /\ UNCHANGED <<notes, next_id>>

\* the urls, rooms and summaries given to the article commands
Urls == {"u1", "u2"}

RoomArgs == {NoRoom, "r", "R", "q", "zz"}

Summaries == {"", "s"}

ArticleInit ==
    /\ TodoIdle
    /\ RewriteIdle
    /\ ArticleIdle
    /\ ProcsIdle

ArticleNext ==
    \/ \E url \in Urls : \E room \in RoomArgs : \E extract_ok \in BOOLEAN :
          ArticleAdd(url, room, extract_ok)
    \/ \E id \in IdArgs(articles) : \E run_ok, store_ok \in BOOLEAN :
          \E summary \in Summaries : ArticleSummarize(id, run_ok, summary, store_ok)
    \/ \E id \in IdArgs(articles) : \E room \in RoomArgs : \E note_ok, store_ok \in BOOLEAN :
          ArticleApprove(id, room, note_ok, store_ok)
    \/ \E id \in IdArgs(articles) : \E store_ok \in BOOLEAN : ArticleArchive(id, store_ok)
    \/ \E id \in IdArgs(articles) : ArticleDelete(id)

ArticleSpec == ArticleInit /\ [][ArticleNext]_vars

(***************************************************************************)
(* The review dashboard: handle_review_dashboard.  One process, procs[1],  *)
(* runs the loop: it lists the articles to review, reads one command and   *)
(* applies it to the listed copy of the article.  The article commands     *)
(* run before the dashboard is opened.                                     *)
(***************************************************************************)
\* list_articles_by_status without the WHERE clause
list_articles_by_status_Any(db, status) == {RowToArticle(r) : r \in db}

\* Store::list_articles_by_status: the articles whose stored status text is
\* that of the status
list_articles_by_status(db, status) ==
    {RowToArticle(r) : r \in {x \in db : x.status = ArticleStatusDisplay(status)}}

\* the dashboard at the top of its loop
DashAt(pc, listed, seen) == <<[pc |-> pc, listed |-> listed, seen |-> seen]>>

\* a dashboard command takes one tick of the clock
DashTick ==
    /\ now <= MaxClock + MaxDashSteps
    /\ now' = now + 1
    /\ abefore' = articles
    /\ UNCHANGED <<actions, files, last, before, io>>
    /\ UNCHANGED rewrite_vars

\* the dashboard goes on to the next iteration, or returns
DashGoes(pc) == procs' = DashAt(pc, procs[1].listed, procs[1].seen)

\* mm article review
DashOpen ==
    /\ ProcsIdle
    /\ procs' = DashAt("list", {}, {})
    /\ UNCHANGED <<todo_vars, rewrite_vars, article_vars>>

\* the head of the loop: the Summarized articles, then the Pending ones;
\* the loop breaks when there is none
DashList ==
    /\ ~ProcsIdle
    /\ procs[1].pc = "list"
    /\ LET listed == list_articles_by_status(articles, "Summarized")
                        \cup list_articles_by_status(articles, "Pending")
       IN  procs' = DashAt(IF listed = {} THEN "done" ELSE "prompt", listed, articles)
    /\ UNCHANGED <<todo_vars, rewrite_vars, article_vars>>

\* q, quit
DashQuit ==
    /\ ~ProcsIdle
    /\ procs[1].pc = "prompt"
    /\ DashGoes("done")
    /\ UNCHANGED <<todo_vars, rewrite_vars, article_vars>>

\* a view, an invalid article number or an unknown command: nothing is
\* written and the loop goes on
DashOther ==
    /\ ~ProcsIdle
    /\ procs[1].pc = "prompt"
    /\ DashGoes("list")
    /\ UNCHANGED <<todo_vars, rewrite_vars, article_vars>>

\* s <n>: article is the n-th listed article
DashSummarize(article, run_ok, summary, store_ok) ==
    /\ ~ProcsIdle
    /\ procs[1].pc = "prompt"
    /\ article \in procs[1].listed
    /\ DashTick
    /\ aargs' = ArticleArgs(article.id, NoRoom)
    /\ UNCHANGED <<notes, next_id>>
    /\ IF ~run_ok
       THEN /\ alast' = ArticleReport("review-summarize", TRUE,
                                      <<"get_active_summary_config">>)
            /\ UNCHANGED articles
            /\ DashGoes("list")
       ELSE /\ articles' = IF store_ok
                           THEN update_article(articles, set_summary(article, summary, now))
                           ELSE articles
            /\ alast' = ArticleReport("review-summarize", store_ok,
                                      <<"get_active_summary_config", "update_article">>)
            /\ DashGoes(IF store_ok THEN "list" ELSE "done")

\* a <n>: choice is the room picked at the prompt when the article has no
\* room, NoRoom for an invalid room number
DashApprove(article, choice, note_ok, store_ok) ==
    /\ ~ProcsIdle
    /\ procs[1].pc = "prompt"
    /\ article \in procs[1].listed
    /\ DashTick
    /\ LET room_id == IF article.room_id # NoRoom THEN article.room_id ELSE choice
           lookup == IF article.room_id # NoRoom THEN <<>> ELSE <<"list_rooms">>
           note == NoteNew(NewId(next_id), room_id, article.title,
                           NoteContent(article), now)
       IN  /\ aargs' = ArticleArgs(article.id, room_id)
           /\ IF room_id = NoRoom
              THEN /\ alast' = ArticleReport("review-approve", TRUE, lookup)
                   /\ UNCHANGED <<articles, notes, next_id>>
                   /\ DashGoes("list")
              ELSE IF ~note_ok
              THEN /\ alast' = ArticleReport("review-approve", FALSE,
                                             lookup \o <<"create_note">>)
                   /\ UNCHANGED <<articles, notes, next_id>>
                   /\ DashGoes("done")
              ELSE /\ notes' = create_note(notes, note)
                   /\ next_id' = next_id + 1
                   /\ articles' = IF store_ok
                                  THEN update_article(articles, mark_reviewed(article, now))
                                  ELSE articles
                   /\ alast' = ArticleReport("review-approve", store_ok,
                                   lookup \o <<"create_note", "update_article">>)
                   /\ DashGoes(IF store_ok THEN "list" ELSE "done")

\* x <n>
DashArchive(article, store_ok) ==
    /\ ~ProcsIdle
    /\ procs[1].pc = "prompt"
    /\ article \in procs[1].listed
    /\ DashTick
    /\ aargs' = ArticleArgs(article.id, NoRoom)
    /\ UNCHANGED <<notes, next_id>>
    /\ articles' = IF store_ok THEN update_article(articles, archive(article, now))
                   ELSE articles
    /\ alast' = ArticleReport("review-archive", store_ok, <<"update_article">>)
    /\ DashGoes(IF store_ok THEN "list" ELSE "done")

\* the articles on the list the dashboard shows
ListedArticles == UNION {procs[i].listed : i \in DOMAIN procs}

\* the article commands run before the dashboard is opened
BeforeDashboard == ProcsIdle /\ ArticleNext

DashboardNext ==
    \/ BeforeDashboard
    \/ DashOpen
    \/ DashList
    \/ DashQuit
    \/ DashOther
    \/ \E article \in ListedArticles :
         \E run_ok, store_ok \in BOOLEAN : \E summary \in Summaries :
           DashSummarize(article, run_ok, summary, store_ok)
    \/ \E article \in ListedArticles :
         \E choice \in {r.id : r \in Rooms} \cup {NoRoom} : \E note_ok, store_ok \in BOOLEAN :
           DashApprove(article, choice, note_ok, store_ok)
    \/ \E article \in ListedArticles :
         \E store_ok \in BOOLEAN : DashArchive(article, store_ok)

DashboardSpec == ArticleInit /\ [][DashboardNext]_vars

(***************************************************************************)
(* Two status commands as concurrent processes.                            *)
(*                                                                         *)
(* Each process runs one of complete, start, skip on its own Action; the   *)
(* two Actions are anchored at lines 1 and 2 of plans/p.md.  A process     *)
(* takes four steps: find_user_action, update_user_action, read_to_string  *)
(* and write; the steps of the two processes interleave freely.  When both *)
(* have ended, `todo sync` may run.                                        *)
(***************************************************************************)
ProcIds == {1, 2}

RacePath == "plans/p.md"

\* the plan file before the race: line 1 with title a, line 2 with title b,
\* each Pending or InProgress
RaceContents ==
    {Terminated(<<Bullet \o m1 \o <<" ", "a">>, Bullet \o m2 \o <<" ", "b">>>>) :
        m1 \in {MarkerPending, MarkerWip}, m2 \in {MarkerPending, MarkerWip}}

\* the local variables of a process at its start
ProcStart(cmd, arg) ==
    [pc |-> "find", cmd |-> cmd, arg |-> arg, found |-> <<>>, text |-> <<>>,
     wrote |-> 0, ok |-> TRUE]

\* the id of the row anchored at a line of the file
RowIdAt(db, line_number) ==
    (CHOOSE r \in db : r.source_file = RacePath /\ r.line_number = line_number).id

\* the state right after a sync of the file, with one command about to run
\* on each of its two Actions
StatusRaceInit ==
    /\ \E c \in RaceContents :
          /\ files = [p \in Paths |-> IF p = RacePath THEN RegularFile(c) ELSE AbsentFile]
          /\ LET run == SyncRun({}, files, 1, CHOOSE o \in DirOrders : TRUE, 1)
             IN  /\ actions = run.db
                 /\ next_id = run.next_id
                 /\ \E c1, c2 \in {"complete", "start", "skip"} :
                       procs = [p \in ProcIds |->
                                  ProcStart(IF p = 1 THEN c1 ELSE c2, RowIdAt(run.db, p))]
    /\ now = 1
    /\ last = Report("init", TRUE, 0, 0, 0, 0)
    /\ before = {}
    /\ io = NoCall
    /\ RewriteIdle
    /\ ArticleIdle

\* what a step of a process leaves alone
ProcFrame ==
    /\ UNCHANGED <<now, next_id, last, before, io>>
    /\ UNCHANGED rewrite_vars
    /\ UNCHANGED article_vars

\* let mut action = find_user_action(store, &id)?
ProcFind(p) ==
    /\ procs[p].pc = "find"
    /\ IF find_user_action(actions, procs[p].arg) = {}
       THEN procs' = [procs EXCEPT ![p].pc = "done", ![p].ok = FALSE]
       ELSE \E found \in find_user_action(actions, procs[p].arg) :
              procs' = [procs EXCEPT ![p].pc = "save", ![p].found = <<found>>]
    /\ UNCHANGED <<actions, files>>
    /\ ProcFrame

\* action.complete() / start() / skip(); store.update_user_action(&action)?
ProcSave(p) ==
    /\ procs[p].pc = "save"
    /\ LET action == ApplyStatus(procs[p].cmd, procs[p].found[1], now)
       IN  /\ actions' = update_user_action(actions, action)
           /\ procs' = [procs EXCEPT
                          ![p].found = <<action>>,
                          ![p].pc = IF action.source_file # NoFile /\ action.line_number # NoLine
                                    THEN "read" ELSE "done"]
    /\ UNCHANGED files
    /\ ProcFrame

\* update_plan_file up to read_to_string: path.exists() and the read
ProcRead(p) ==
    /\ procs[p].pc = "read"
    /\ LET file == files[procs[p].found[1].source_file]
       IN  procs' = IF file.kind = "absent" THEN [procs EXCEPT ![p].pc = "done"]
                    ELSE IF file.kind = "unreadable"
                    THEN [procs EXCEPT ![p].pc = "done", ![p].ok = FALSE]
                    ELSE [procs EXCEPT ![p].pc = "write", ![p].text = <<file.content>>]
    /\ UNCHANGED <<actions, files>>
    /\ ProcFrame

\* the number of file writes made so far
WritesMade == Cardinality({q \in ProcIds : procs[q].wrote # 0})

\* update_plan_file from update_plan_markers on: the write of the text
\* computed from what the process read
ProcWrite(p) ==
    /\ procs[p].pc = "write"
    /\ LET action == procs[p].found[1]
           updated == update_plan_markers(procs[p].text[1],
                                          <<<<action.line_number, action.status>>>>)
       IN  files' = [files EXCEPT ![action.source_file] = RegularFile(updated)]
    /\ procs' = [procs EXCEPT ![p].pc = "done", ![p].wrote = WritesMade + 1]
    /\ UNCHANGED actions
    /\ ProcFrame

\* both processes have ended
AllDone == \A p \in ProcIds : procs[p].pc = "done"

\* a `todo sync` run after the two commands
SyncAfterRace(order) ==
    /\ AllDone
    /\ TodoSync(order)

StatusRaceNext ==
    \/ \E p \in ProcIds : ProcFind(p)
    \/ \E p \in ProcIds : ProcSave(p)
    \/ \E p \in ProcIds : ProcRead(p)
    \/ \E p \in ProcIds : ProcWrite(p)
    \/ \E order \in DirOrders : SyncAfterRace(order)

StatusRaceSpec == StatusRaceInit /\ [][StatusRaceNext]_vars

(***************************************************************************)
(* Two `todo sync` runs as concurrent processes over the same directory.   *)
(*                                                                         *)
(* A process steps at the store calls of the sync loop: for each file it   *)
(* reads and parses the file and loads the file's rows once                *)
(* (list_user_actions_by_source), then makes one create_user_action or     *)
(* update_user_action call per parsed action.  The store serialises the    *)
(* single calls; nothing spans two of them.                                *)
(***************************************************************************)
\* the key of the user_actions table: the id.  (source_file, line_number) is
\* the logical key of reconciliation, which the table does not enforce.
UserActionsPrimaryKey(r) == r.id

\* the INSERT is refused when a row with the same table key is stored
InsertRefused(db, row) ==
    \E r \in db : UserActionsPrimaryKey(r) = UserActionsPrimaryKey(row)

\* the local variables of a sync process at its start
SyncProcStart(order) ==
    [pc |-> "open", order |-> order, i |-> 1, parsed |-> <<>>, existing |-> {},
     k |-> 1, new |-> 0, updated |-> 0, ok |-> TRUE]

SyncRaceInit ==
    /\ actions = {}
    /\ \E c \in ContentPool : \E second \in SecondFilePool \ {UnreadableFile} :
          files = [p \in Paths |-> IF p = "plans/p.md" THEN RegularFile(c) ELSE second]
    /\ \E o1, o2 \in DirOrders :
          procs = [p \in ProcIds |-> SyncProcStart(IF p = 1 THEN o1 ELSE o2)]
    /\ now = 1
    /\ next_id = 1
    /\ last = Report("init", TRUE, 0, 0, 0, 0)
    /\ before = {}
    /\ io = NoCall
    /\ RewriteIdle
    /\ ArticleIdle

\* the head of `for entry in read_dir`: read_to_string, parse_plan_content
\* and list_user_actions_by_source for the next entry
SyncOpen(p) ==
    /\ procs[p].pc = "open"
    /\ LET me == procs[p]
       IN  IF me.i > Len(me.order)
           THEN procs' = [procs EXCEPT ![p].pc = "done"]
           ELSE LET path == me.order[me.i]
                    file == files[path]
                    parsed_actions == parse_plan_content(file.content)
                IN  IF file.kind = "absent"
                    THEN procs' = [procs EXCEPT ![p].i = @ + 1]
                    ELSE IF file.kind = "unreadable"
                    THEN procs' = [procs EXCEPT ![p].pc = "done", ![p].ok = FALSE]
                    ELSE IF parsed_actions = <<>>
                    THEN procs' = [procs EXCEPT ![p].i = @ + 1]
                    ELSE procs' = [procs EXCEPT
                             ![p].pc = "apply",
                             ![p].parsed = parsed_actions,
                             ![p].existing =
                                 ExistingMap(list_user_actions_by_source(actions, path)),
                             ![p].k = 1]
    /\ UNCHANGED <<actions, files, next_id>>
    /\ UNCHANGED <<now, last, before, io>>
    /\ UNCHANGED rewrite_vars
    /\ UNCHANGED article_vars

\* the process after the k-th parsed action of its file
SyncAdvance(me) ==
    IF me.k = Len(me.parsed)
    THEN [me EXCEPT !.pc = "open", !.i = @ + 1]
    ELSE [me EXCEPT !.k = @ + 1]

\* the body of `for parsed in result.actions` for the k-th parsed action:
\* one update_user_action or create_user_action call, or none
SyncApply(p) ==
    /\ procs[p].pc = "apply"
    /\ LET me == procs[p]
           pa == me.parsed[me.k]
           path == me.order[me.i]
           hit == ExistingGet(me.existing, pa.line_number)
           action == [from_plan(NewId(next_id), pa.title, path, pa.line_number, now)
                        EXCEPT !.status = pa.status]
       IN  IF hit # <<>>
           THEN IF NeedsUpdate(hit[1], pa)
                THEN /\ actions' = update_user_action(actions, UpdatedAction(hit[1], pa))
                     /\ procs' = [procs EXCEPT ![p] = [SyncAdvance(me) EXCEPT !.updated = @ + 1]]
                     /\ UNCHANGED next_id
                ELSE /\ procs' = [procs EXCEPT ![p] = SyncAdvance(me)]
                     /\ UNCHANGED <<actions, next_id>>
           ELSE IF InsertRefused(actions, ActionToRow(action))
                THEN /\ procs' = [procs EXCEPT ![p].pc = "done", ![p].ok = FALSE]
                     /\ UNCHANGED <<actions, next_id>>
                ELSE /\ actions' = create_user_action(actions, action)
                     /\ next_id' = next_id + 1
                     /\ procs' = [procs EXCEPT ![p] = [SyncAdvance(me) EXCEPT !.new = @ + 1]]
    /\ UNCHANGED files
    /\ UNCHANGED <<now, last, before, io>>
    /\ UNCHANGED rewrite_vars
    /\ UNCHANGED article_vars

SyncRaceNext ==
    \/ \E p \in ProcIds : SyncOpen(p)
    \/ \E p \in ProcIds : SyncApply(p)

SyncRaceSpec == SyncRaceInit /\ [][SyncRaceNext]_vars

(***************************************************************************)
(* Write-through after a sync: the state right after a completed sync,     *)
(* then status commands that succeed and further syncs, with no edit of    *)
(* the files.                                                              *)
(***************************************************************************)
\* what plans/p.md held at an earlier sync: nothing or one line
EarlierContents == {Terminated(ls) : ls \in LineSeqs(0) \cup LineSeqs(1)}

\* the plans directory with plans/p.md holding a text
PlansWith(c) == [p \in Paths |-> IF p = "plans/p.md" THEN RegularFile(c) ELSE AbsentFile]

\* the state right after a completed sync of the present file, the table
\* coming from a sync of what the file held earlier
ConvergeInit ==
    /\ \E c0 \in EarlierContents : \E c1 \in ContentPool :
          LET order == CHOOSE o \in DirOrders : TRUE
              first == SyncRun({}, PlansWith(c0), 1, order, 1)
              second == SyncRun(first.db, PlansWith(c1), first.next_id, order, 1)
          IN  /\ files = PlansWith(c1)
              /\ actions = second.db
              /\ next_id = second.next_id
              /\ before = second.db
    /\ now = 1
    /\ last = Report("init", TRUE, 0, 0, 0, 0)
    /\ io = NoCall
    /\ RewriteIdle
    /\ ArticleIdle
    /\ ProcsIdle

\* a complete, start or skip that returns Ok
SucceedingCommand(cmd, id) ==
    /\ StatusCommand(cmd, id)
    /\ last'.ok

ConvergeNext ==
    \/ \E id \in IdArgs(actions) : SucceedingCommand("complete", id)
    \/ \E id \in IdArgs(actions) : SucceedingCommand("start", id)
    \/ \E id \in IdArgs(actions) : SucceedingCommand("skip", id)
    \/ \E order \in DirOrders : TodoSync(order)

ConvergeSpec == ConvergeInit /\ [][ConvergeNext]_vars

(***************************************************************************)
(* Vocabulary of the properties.                                           *)
(***************************************************************************)
\* the status of a stored row, as the program reads it
StoredStatus(r) == RowToAction(r).status

\* Completed and Skipped are the terminal statuses
IsTerminalRow(r) == StoredStatus(r) \in {"Completed", "Skipped"}

\* the row is anchored to a line of a plan file
IsAnchored(r) == r.source_file # NoFile /\ r.line_number # NoLine

\* what parse_plan_content yields for the file now at path
ParsedOf(path) ==
    IF path \in Paths /\ files[path].kind = "file"
    THEN parse_plan_content(files[path].content)
    ELSE <<>>

ParsedSet(path) == {ParsedOf(path)[i] : i \in 1..Len(ParsedOf(path))}

\* the parsed actions found at the line the row is anchored to
ParsedAtRow(r) == {pa \in ParsedSet(r.source_file) : pa.line_number = r.line_number}

RECURSIVE TotalParsed(_, _)
\* the number of parsed actions in the files order[i], order[i+1], ...
TotalParsed(order, i) ==
    IF i > Len(order) THEN 0
    ELSE Len(ParsedOf(order[i])) + TotalParsed(order, i + 1)

SomeOrder == CHOOSE o \in DirOrders : TRUE

StatusCommands == {"complete", "start", "skip"}

\* the transition table of the Action statuses
AllowedTransition(from, to) ==
    \/ from = to
    \/ from = "Pending"
    \/ from = "InProgress" /\ to \in {"Completed", "Skipped"}

(***************************************************************************)
(* Properties.                                                             *)
(***************************************************************************)
\* C1: a sync run leaves every field of every Completed or Skipped row
\* unchanged, whatever the plan file holds at its line, and does not count
\* such a row as updated.
C1_SyncLeavesTerminalRowsUnchanged ==
    last.cmd = "sync" =>
        /\ \A e \in before : IsTerminalRow(e) => e \in actions
        /\ (\A e \in before : IsTerminalRow(e)) => last.updated = 0

\* C2: a sync run keeps the status of every Completed or Skipped row; when
\* the line of such a row still carries its title (only the marker was
\* edited) the row is not written at all, and a run whose parsed actions all
\* sit on such rows counts nothing as new or updated.
C2_SyncKeepsTerminalStatus ==
    last.cmd = "sync" =>
        /\ \A e \in before : IsTerminalRow(e) =>
              \E r \in actions : r.id = e.id /\ r.status = e.status
        /\ \A e \in before :
              (IsTerminalRow(e) /\ \E pa \in ParsedAtRow(e) : pa.title = e.title)
                 => e \in actions
        /\ (\A path \in Paths : \A pa \in ParsedSet(path) :
               \E e \in before : /\ IsTerminalRow(e)
                                 /\ e.source_file = path
                                 /\ e.line_number = pa.line_number
                                 /\ e.title = pa.title)
              => (last.new = 0 /\ last.updated = 0)

\* a completed sync has just met a Completed row whose line now carries the
\* same title under the marker [USER], and a Skipped row likewise
C2_Witness ==
    /\ last.cmd = "sync"
    /\ last.ok
    /\ \E e \in before :
          /\ StoredStatus(e) \in {"Completed", "Skipped"}
          /\ \E pa \in ParsedAtRow(e) : pa.title = e.title /\ pa.status = "Pending"

\* C3: after a sync that ran to completion, a second sync over the same
\* files and table reports new = 0 and updated = 0 and writes no row, in
\* whatever order it visits the files.
C3_SyncIdempotent ==
    (last.cmd = "sync" /\ last.ok) =>
        \A order \in DirOrders :
            LET again == SyncRun(actions, files, next_id, order, now)
            IN  /\ again.ok
                /\ again.new = 0
                /\ again.updated = 0
                /\ again.writes = 0
                /\ again.db = actions

\* a completed sync that both created and updated rows
C3_Witness ==
    /\ last.cmd = "sync"
    /\ last.ok
    /\ last.new > 0
    /\ last.updated > 0

\* C4: complete, start and skip perform only transitions of the table; in
\* particular they leave a Completed or Skipped row in its status.
C4_StatusCommandsFollowTable ==
    last.cmd \in StatusCommands =>
        \A e \in before : \A r \in actions :
            r.id = e.id => AllowedTransition(StoredStatus(e), StoredStatus(r))

\* C5: every stored row with status Completed has completed_at set.
C5_CompletedHasCompletedAt ==
    \A r \in actions : StoredStatus(r) = "Completed" => r.completed_at # NoTime

\* C6: every stored row with status Skipped has completed_at unset.
C6_SkippedHasNoCompletedAt ==
    \A r \in actions : StoredStatus(r) = "Skipped" => r.completed_at = NoTime

\* C7: no two stored rows have the same source_file and the same (present)
\* line_number; ids are unique as well.
C7_LogicalKeyUnique ==
    \A r1, r2 \in actions :
        /\ (IsAnchored(r1) /\ IsAnchored(r2) /\ r1.source_file = r2.source_file
              /\ r1.line_number = r2.line_number) => r1 = r2
        /\ r1.id = r2.id => r1 = r2

\* a sync has matched stored rows and created others, and the table holds
\* rows on two lines of one file and rows on the same line of two files
C7_Witness ==
    /\ last.cmd = "sync"
    /\ last.new > 0
    /\ last.found > last.new
    /\ \E r1, r2 \in actions :
          IsAnchored(r1) /\ r1.source_file = r2.source_file /\ r1.line_number # r2.line_number
             /\ IsAnchored(r2)
    /\ \E r1, r2 \in actions :
          IsAnchored(r1) /\ r1.source_file # r2.source_file /\ r1.line_number = r2.line_number

\* a row whose line holds no parsed action in its source file any more
IsOrphan(r) == IsAnchored(r) /\ ParsedAtRow(r) = {}

\* C8: a sync run deletes no row: every id stored before it is stored after
\* it, and a row whose line is no longer a marker line of its file (or no
\* line at all) keeps all its fields.
C8_SyncDeletesNothing ==
    last.cmd = "sync" =>
        /\ \A e \in before : \E r \in actions : r.id = e.id
        /\ \A e \in before : IsOrphan(e) => e \in actions

\* a completed sync that found actions in a file one of whose rows sits on a
\* line that is no marker line any more, and another beyond the file's end
C8_Witness ==
    /\ last.cmd = "sync"
    /\ last.ok
    /\ \E e \in before :
          /\ IsOrphan(e)
          /\ ParsedOf(e.source_file) # <<>>
          /\ e.line_number <= Len(Lines(files[e.source_file].content))

\* C9: a sync run leaves unchanged every row without source_file and every
\* row with a source_file but no line_number.
C9_SyncLeavesManualRows ==
    last.cmd = "sync" =>
        \A e \in before : (e.source_file = NoFile \/ e.line_number = NoLine) => e \in actions

\* a completed sync wrote rows for a plan file to which `todo add --plan`
\* had attached a row without line number
C9_Witness ==
    /\ last.cmd = "sync"
    /\ last.ok
    /\ last.writes > 0
    /\ \E e \in before :
          /\ e.source_file \in Paths
          /\ e.line_number = NoLine
          /\ ParsedOf(e.source_file) # <<>>

\* C10: a completed sync reports found = the number of parsed actions over
\* all files; every parsed action counts at most once, as new (one row more)
\* or as updated (one write), so new + updated <= found.
C10_SyncCounts ==
    (last.cmd = "sync" /\ last.ok) =>
        /\ last.found = TotalParsed(SomeOrder, 1)
        /\ last.new = Cardinality(actions) - Cardinality(before)
        /\ last.new + last.updated = last.writes
        /\ last.new + last.updated <= last.found

\* a completed sync over two files with parsed actions that created rows
\* for some of them and left the rows of others alone
C10_Witness ==
    /\ last.cmd = "sync"
    /\ last.ok
    /\ \A path \in Paths : ParsedOf(path) # <<>>
    /\ last.new > 0
    /\ last.new + last.updated < last.found

\* C11: a pass of update_plan_markers with an empty update map returns the
\* text byte for byte, CRLF terminators and a final newline included.
C11_RewriteEmptyIsIdentity ==
    (passes = 1 /\ updates = <<>>) => content = original

\* C12: a second pass of update_plan_markers with the same update map
\* returns what the first pass returned, whatever the terminators of the
\* text (CRLF, stray carriage returns, final newline).
C12_RewriteIdempotent ==
    passes = 2 => content = update_plan_markers(original, updates)

\* the update map of the round trip: each parsed action's line_number with
\* its parsed status
ParsedUpdates(parsed_actions) ==
    [i \in 1..Len(parsed_actions) |->
        <<parsed_actions[i].line_number, parsed_actions[i].status>>]

\* C13: when the update map gives each parsed action's line its parsed
\* status, parsing the rewritten text yields the same sequence of (title,
\* line_number, status) as parsing the text did.
C13_ParseRewriteRoundTrip ==
    (/\ passes = 1
     /\ parsed # <<>>
     /\ updates = ParsedUpdates(parse_plan_content(original)))
        => parsed[1] = parse_plan_content(original)

\* the round trip was made on a text with an alias token and an unknown
\* token, ended by CRLF, and the rewritten text was parsed
C13_Witness ==
    /\ passes = 1
    /\ parsed # <<>>
    /\ updates = ParsedUpdates(parse_plan_content(original))
    /\ Len(parsed[1]) = 2
    /\ {parsed[1][i].status : i \in 1..2} = {"Completed", "Pending"}
    /\ content # original
    /\ Find(original, <<"c", "o", "m", "p", "l", "e", "t", "e", "d">>) # 0
    /\ Find(original, <<"f", "o", "o">>) # 0
    /\ Find(original, <<"\r", "\n">>) # 0

\* the line is one parse_plan_content recognises as a marker line
IsMarkerLine(line) == parse_user_marker(Trim(line), 1) # <<>>

\* the lines of a text written by join("\n"): the pieces between the "\n"
JoinedLines(text) ==
    LET pieces == SplitInclusive(text)
    IN  [i \in 1..Len(pieces) |->
            IF pieces[i][Len(pieces[i])] = "\n"
            THEN SubSeq(pieces[i], 1, Len(pieces[i]) - 1)
            ELSE pieces[i]]

\* C14: whatever the update map, a pass of update_plan_markers leaves every
\* line that is not a marker line as it was (terminator aside), also when
\* the line carries the text [USER...] after other text.
C14_NonMarkerLinesPreserved ==
    passes = 1 =>
        \A i \in 1..Len(Lines(original)) :
            ~IsMarkerLine(Lines(original)[i]) =>
                /\ i <= Len(JoinedLines(content))
                /\ JoinedLines(content)[i] = Lines(original)[i]

\* two texts that differ at most in the letter case of their marker tokens
\* (titles and other text of the pool are in lowercase)
SameUpToCase(t1, t2) == ToLowercase(t1) = ToLowercase(t2)

\* C15: the result of parse_plan_content does not depend on the letter case
\* of the marker tokens: texts that differ only in it parse alike; so
\* [USER:DONE], [user:done] and [User:Done] all give status Completed.
C15_ParseCaseInsensitive ==
    parsed # <<>> =>
        \A other \in TextPool :
            SameUpToCase(other, content) => parse_plan_content(other) = parsed[1]

RECURSIVE Concat(_)
\* the pieces of a text put together again
Concat(pieces) == IF pieces = <<>> THEN <<>> ELSE Head(pieces) \o Concat(Tail(pieces))

\* the text with the marker token of one line replaced by token and every
\* other byte, terminators included, as it was
WithToken(text, line_number, token) ==
    LET pieces == SplitInclusive(text)
        piece  == pieces[line_number]
        open   == Find(piece, MarkerOpen)
        close  == FindFrom(piece, <<"]">>, open)
    IN  Concat([pieces EXCEPT ![line_number] =
                   SubSeq(piece, 1, open - 1) \o token \o SubSeq(piece, close + 1, Len(piece))])

\* the rows the last command wrote
Written == actions \ before

\* C16: after a successful complete on a row anchored to a marker line of
\* an existing file, the file is the text read with that line's marker
\* token replaced by [USER:done] and every other byte identical.
C16_CompleteEditsOnlyTheToken ==
    (last.cmd = "complete" /\ last.ok /\ io.read # <<>>) =>
        \A r \in Written :
            (/\ IsAnchored(r)
             /\ r.line_number <= Len(Lines(io.read[1]))
             /\ IsMarkerLine(Lines(io.read[1])[r.line_number]))
                => files[r.source_file].content = WithToken(io.read[1], r.line_number, MarkerDone)

\* the rows whose id starts with the argument
Matching(db, id) == {r \in db : StartsWith(r.id, id)}

\* the argument is a full id of a row or a prefix of exactly one row's id
ResolvesUniquely(db, id) ==
    \/ \E r \in db : r.id = id
    \/ Cardinality(Matching(db, id)) = 1

\* C17: complete, start and skip act only on an argument that is a full id
\* or a prefix of exactly one stored id; with any other argument (no match,
\* or two or more matches) the command fails and writes no row and no file.
C17_IdResolvedUniquely ==
    last.cmd \in StatusCommands =>
        \/ ResolvesUniquely(before, io.arg)
        \/ (~last.ok /\ actions = before /\ io.calls = <<>>)

\* the status a command gives to the action it resolved
TargetStatus(cmd) ==
    CASE cmd = "complete" -> "Completed"
      [] cmd = "start" -> "InProgress"
      [] cmd = "skip" -> "Skipped"

FileCalls == {"read_to_string", "write"}

\* the table holds, for an anchored row the argument resolves to, the new
\* status of the command
NewStatusPersisted ==
    \E r \in actions :
        /\ StartsWith(r.id, io.arg)
        /\ IsAnchored(r)
        /\ StoredStatus(r) = TargetStatus(last.cmd)

\* C18: complete, start and skip save the new status in the table before
\* they read or rewrite the plan file: every file call comes after a
\* successful update_user_action, whose row stays as saved when the read or
\* the write fails, and the command then reports the error; a file is never
\* written for a row the table does not hold with the new status.
C18_StatusSavedBeforeFile ==
    last.cmd \in StatusCommands =>
        /\ \A i \in 1..Len(io.calls) :
              io.calls[i] \in FileCalls =>
                  /\ i > 1
                  /\ io.calls[1] = "update_user_action"
                  /\ NewStatusPersisted
        /\ (\E i \in 1..Len(io.calls) : io.calls[i] = "read_to_string") /\ io.read = <<>>
              => ~last.ok
        /\ ~NewStatusPersisted => \A i \in 1..Len(io.calls) : io.calls[i] # "write"

\* a start whose row was saved and whose file was read, but whose write
\* failed: the command reports an error, the row holds the new status and
\* the file still carries the old marker
C18_Witness ==
    /\ last.cmd = "start"
    /\ ~last.ok
    /\ io.calls = <<"update_user_action", "read_to_string", "write">>
    /\ \E r \in Written :
          /\ StoredStatus(r) = "InProgress"
          /\ \E pa \in ParsedAtRow(r) : pa.status = "Pending"

\* the status of a stored article, as the program reads it
StoredArticleStatus(r) == RowToArticle(r).status

\* the moves of the article pipeline: forward along Pending -> Summarized ->
\* Reviewed, and into Archived (which the transition table accepts in any
\* state); nothing leaves Archived, and Reviewed is left for Archived only
AllowedArticleTransition(from, to) ==
    \/ from = to
    \/ to = "Archived"
    \/ from = "Pending" /\ to \in {"Summarized", "Reviewed"}
    \/ from = "Summarized" /\ to = "Reviewed"

PipelineCommands == {"summarize", "approve", "archive"}

\* C19: summarize, approve and archive move an article's status only
\* forward: a Reviewed or Archived article is not set back to Summarized,
\* and an Archived article is not moved to Reviewed.
C19_ArticleStatusMonotone ==
    alast.cmd \in PipelineCommands =>
        \A e \in abefore : \A r \in articles :
            r.id = e.id =>
                AllowedArticleTransition(StoredArticleStatus(e), StoredArticleStatus(r))

\* C20: every stored article with status Summarized has its summary set.
C20_SummarizedHasSummary ==
    \A r \in articles : StoredArticleStatus(r) = "Summarized" => r.summary # NoSummary

\* a summarize has just stored a summary for an article that had none, the
\* summarizer having returned the empty text
C20_Witness ==
    /\ alast.cmd = "summarize"
    /\ alast.ok
    /\ \E e \in abefore : \E r \in articles :
          /\ r.id = e.id
          /\ e.summary = NoSummary
          /\ StoredArticleStatus(r) = "Summarized"
          /\ r.summary = <<"">>

\* the notes written by the last article command
NotesWritten == {n \in notes : n.created_at = now - 1}

\* the position of the first call of that name among the store calls of the
\* last article command, 0 when there is none
CallIndex(name) ==
    IF \E i \in 1..Len(alast.calls) : alast.calls[i] = name
    THEN CHOOSE i \in 1..Len(alast.calls) :
            /\ alast.calls[i] = name
            /\ \A j \in 1..(i - 1) : alast.calls[j] # name
    ELSE 0

\* the note insert of the last approve was issued and failed
NoteWriteFailed ==
    /\ ~alast.ok
    /\ CallIndex("create_note") # 0
    /\ NotesWritten = {}

\* C21: approve issues the note insert before the article status write; if
\* the note insert fails no status write is issued and the stored articles
\* are unchanged.
C21_NoteBeforeStatus ==
    alast.cmd = "approve" =>
        /\ CallIndex("update_article") # 0 =>
              /\ CallIndex("create_note") # 0
              /\ CallIndex("create_note") < CallIndex("update_article")
        /\ articles # abefore => NotesWritten # {}
        /\ NoteWriteFailed =>
              /\ CallIndex("update_article") = 0
              /\ articles = abefore

\* an approve of a stored article whose note insert failed
C21_Witness ==
    /\ alast.cmd = "approve"
    /\ NoteWriteFailed
    /\ find_article(abefore, aargs.id) # {}
    /\ articles = abefore

\* the room an approve is aimed at: the room named by --room when given,
\* otherwise the room of the article
TargetRooms(e) ==
    IF aargs.room # NoRoom
    THEN {r.id : r \in {x \in Rooms : AsciiLower(x.name) = AsciiLower(aargs.room)}}
    ELSE {e.room_id}

\* the body of the note of an approved article: the summary template when
\* the article has a summary, the source/content template otherwise
NoteTemplate(e) ==
    IF e.summary # NoSummary
    THEN <<"## Summary\n\n", e.summary[1], "\n\n## Source\n\n", e.url,
           "\n\n## Full Content\n\n", e.raw_content>>
    ELSE <<"## Source\n\n", e.url, "\n\n## Content\n\n", e.raw_content>>

\* C22: after a successful approve the store holds a Reference note in the
\* target room (--room if given, otherwise the article's room) with the
\* article's title and the templated body, and the stored article is
\* Reviewed.
C22_ApproveCreatesNote ==
    alast.cmd = "approve" /\ alast.ok =>
        \E e \in find_article(abefore, aargs.id) :
            /\ \E n \in NotesWritten :
                  /\ n.note_type = "reference"
                  /\ n.room_id \in TargetRooms(e)
                  /\ n.room_id # NoRoom
                  /\ n.title = e.title
                  /\ n.content = NoteTemplate(e)
            /\ \E r \in articles :
                  /\ r.id = e.id
                  /\ StoredArticleStatus(r) = "Reviewed"

\* a successful approve with --room q of a summarized article that belongs
\* to the other room: the note is in the room of the argument
C22_Witness ==
    /\ alast.cmd = "approve"
    /\ alast.ok
    /\ aargs.room = "q"
    /\ \E e \in find_article(abefore, aargs.id) :
          /\ e.room_id = "room-1"
          /\ e.summary # NoSummary
          /\ \E n \in NotesWritten : n.room_id = "room-2" /\ n.title = e.title

\* the actions of the last parse
ParsedActions == {parsed[1][k] : k \in 1..Len(parsed[1])}

\* the actions of the last parse at a line
ParsedAtLine(i) == {pa \in ParsedActions : pa.line_number = i}

\* the token of a line: from the line's marker start to the first `]`
TokenOf(line) ==
    LET l == TrimStartDashWs(Trim(line))
    IN  SubSeq(l, 1, Find(l, <<"]">>))

\* the table of marker tokens: token and status
TokenTable ==
    { <<<<"[", "U", "S", "E", "R", "]">>, "Pending">>,
      <<<<"[", "U", "S", "E", "R", ":", "w", "i", "p", "]">>, "InProgress">>,
      <<<<"[", "U", "S", "E", "R", ":", "i", "n", "p", "r", "o", "g", "r", "e", "s", "s", "]">>, "InProgress">>,
      <<<<"[", "U", "S", "E", "R", ":", "i", "n", "_", "p", "r", "o", "g", "r", "e", "s", "s", "]">>, "InProgress">>,
      <<<<"[", "U", "S", "E", "R", ":", "d", "o", "n", "e", "]">>, "Completed">>,
      <<<<"[", "U", "S", "E", "R", ":", "c", "o", "m", "p", "l", "e", "t", "e", "d", "]">>, "Completed">>,
      <<<<"[", "U", "S", "E", "R", ":", "s", "k", "i", "p", "]">>, "Skipped">>,
      <<<<"[", "U", "S", "E", "R", ":", "s", "k", "i", "p", "p", "e", "d", "]">>, "Skipped">> }

\* the status the table gives a token, letter case apart; Pending for a
\* token it does not list
TokenStatus(token) ==
    IF \E row \in TokenTable : ToLowercase(row[1]) = ToLowercase(token)
    THEN (CHOOSE row \in TokenTable : ToLowercase(row[1]) = ToLowercase(token))[2]
    ELSE "Pending"

\* lines that carry no marker: checkbox lines and plain text
UnmarkedLines == {<<"-", " ", "[", " ", "]", " ", "x">>, <<"-", " ", "[", "x", "]", " ", "x">>, <<"#", " ", "x">>}

\* C23: the status of a parsed action is the one the token table gives the
\* token of its line (Pending for `[USER]` and for every unlisted token that
\* starts with `[USER`, InProgress for wip, inprogress, in_progress,
\* Completed for done, completed, Skipped for skip, skipped); a bulleted
\* line with a listed token and a title yields an action of that status;
\* checkbox lines and plain text yield none.
C23_TokenStatusTable ==
    parsed # <<>> =>
        \A i \in 1..Len(Lines(content)) :
            LET line == Lines(content)[i]
            IN  /\ \A pa \in ParsedAtLine(i) : pa.status = TokenStatus(TokenOf(line))
                /\ \A row \in TokenTable \cup {<<<<"[", "U", "S", "E", "R", ":", "f", "o", "o", "]">>, "Pending">>,
                                               <<<<"[", "U", "S", "E", "R", "S", "]">>, "Pending">>} :
                      line = Bullet \o row[1] \o <<" ", "a">> =>
                          \E pa \in ParsedAtLine(i) : pa.status = row[2]
                /\ line \in UnmarkedLines => ParsedAtLine(i) = {}

\* a line with the alias token `[USER:in_progress]` parsed as InProgress
C23_Witness ==
    /\ parsed # <<>>
    /\ Lines(content) = <<Bullet \o <<"[", "U", "S", "E", "R", ":", "i", "n", "_", "p", "r", "o", "g", "r", "e", "s", "s", "]">> \o <<" ", "a">> >>
    /\ \E pa \in ParsedAtLine(1) : pa.status = "InProgress"

\* the line carries a marker token: after its bullet it starts with `[USER`
\* and has a closing bracket
HasMarkerToken(line) ==
    LET l == TrimStartDashWs(Trim(line))
    IN  StartsWith(l, MarkerOpen) /\ Find(l, <<"]">>) # 0

\* the title of a line with a marker token: what follows the token, trimmed
TitleOf(line) ==
    LET l == TrimStartDashWs(Trim(line))
    IN  Trim(SubSeq(l, Find(l, <<"]">>) + 1, Len(l)))

CanonicalMarker(st) ==
    CASE st = "Pending" -> <<"[", "U", "S", "E", "R", "]">>
      [] st = "InProgress" -> <<"[", "U", "S", "E", "R", ":", "w", "i", "p", "]">>
      [] st = "Completed" -> <<"[", "U", "S", "E", "R", ":", "d", "o", "n", "e", "]">>
      [] st = "Skipped" -> <<"[", "U", "S", "E", "R", ":", "s", "k", "i", "p", "]">>

\* the positions at which `[USER` starts in a line
TokenStarts(line) ==
    {p \in 1..Len(line) : p + 4 <= Len(line) /\ SubSeq(line, p, p + 4) = <<"[", "U", "S", "E", "R">>}

\* the closing brackets of a line from a position on
ClosingFrom(line, p) == {q \in p..Len(line) : line[q] = "]"}

\* the least element of a non-empty set of positions
Least(S) == CHOOSE p \in S : \A q \in S : p <= q

\* the greatest element of a non-empty set of positions
Greatest(S) == CHOOSE p \in S : \A q \in S : q <= p

\* the line with the span from its first `[USER` to the next `]` replaced by
\* the canonical marker of the status; the line itself when it has no such
\* span
WithSpanReplaced(line, st) ==
    IF TokenStarts(line) = {} THEN line
    ELSE LET from == Least(TokenStarts(line))
         IN  IF ClosingFrom(line, from) = {} THEN line
             ELSE LET to == Least(ClosingFrom(line, from))
                  IN  SubSeq(line, 1, from - 1) \o CanonicalMarker(st)
                        \o SubSeq(line, to + 1, Len(line))

\* C25: after a pass of update_plan_markers every line whose number is a key
\* of the update map and that holds `[USER` followed by `]` has exactly the
\* span from the first `[USER` to the next `]` replaced by the canonical
\* marker of the new status, the text before and after the span being kept;
\* a line that is no key keeps its text and a keyed line without such a span
\* is unchanged.
C25_RewriteReplacesOnlyTheSpan ==
    passes = 1 =>
        /\ Len(JoinedLines(content)) = Len(Lines(original))
        /\ \A i \in 1..Len(Lines(original)) :
              LET line == Lines(original)[i]
                  new == JoinedLines(content)[i]
                  hits == {k \in 1..Len(updates) : updates[k][1] = i}
              IN  IF hits = {} THEN new = line
                  ELSE new = WithSpanReplaced(line, updates[Greatest(hits)][2])

\* a keyed line with brackets around the token: only the token changed
C25_Witness ==
    /\ passes = 1
    /\ Lines(original) = << <<"x", "]", " ", "[", "U", "S", "E", "R", ":", "w", "i", "p", "]", " ", "a", "]", " ", "b">> >>
    /\ updates = << <<1, "Completed">> >>
    /\ JoinedLines(content) = << <<"x", "]", " ", "[", "U", "S", "E", "R", ":", "d", "o", "n", "e", "]", " ", "a", "]", " ", "b">> >>

\* the line without one leading dash, when the dash is followed by
\* whitespace; the line itself otherwise
WithoutBullet(line) ==
    IF Len(line) >= 2 /\ line[1] = "-" /\ IsWhitespace(line[2])
    THEN TrimStart(SubSeq(line, 2, Len(line)))
    ELSE line

\* the grammar of a marker line: leading whitespace and at most one dash
\* followed by whitespace removed, the line begins with `[USER` and holds
\* a `]`
GrammarMarkerLine(line) ==
    LET l == WithoutBullet(TrimStart(line))
    IN  /\ Len(l) >= 5
        /\ SubSeq(l, 1, 5) = <<"[", "U", "S", "E", "R">>
        /\ \E q \in 1..Len(l) : l[q] = "]"

\* C26: a line yields an action if and only if it is a marker line of the
\* grammar with a non-empty title; a dash without a space before the token
\* (`-[USER] x`) or more than one dash (`-- [USER] x`, `- - [USER] x`) makes
\* no marker line and yields no action.
C26_RecognitionFollowsGrammar ==
    parsed # <<>> =>
        \A i \in 1..Len(Lines(content)) :
            LET line == Lines(content)[i]
            IN  (ParsedAtLine(i) # {})
                  <=> (GrammarMarkerLine(line) /\ TitleOf(line) # <<>>)

\* how far a status is along Pending -> InProgress -> Completed / Skipped
StatusRank(st) ==
    CASE st = "Pending" -> 0
      [] st = "InProgress" -> 1
      [] st \in {"Completed", "Skipped"} -> 2

\* C27: a sync run never moves the status of a stored row backwards; a row
\* that is InProgress is not set back to Pending because its line carries
\* `[USER]`.
C27_SyncNeverRegresses ==
    last.cmd = "sync" =>
        \A e \in before : \A r \in actions :
            r.id = e.id => StatusRank(StoredStatus(e)) <= StatusRank(StoredStatus(r))

\* the parsed action at the line of a row differs from the row in title or
\* status
DiffersFromRow(e, pa) == pa.title # e.title \/ pa.status # StoredStatus(e)

\* the rows of before that are Pending or InProgress and have a parsed
\* action at their line
MatchedOpenRows == {e \in before : IsAnchored(e) /\ ~IsTerminalRow(e) /\ ParsedAtRow(e) # {}}

\* C28: in a sync run, a Pending or InProgress row whose line holds a parsed
\* action with another title or status gets the parsed title and status and
\* keeps its id, created_at, source_file and line_number, and is counted
\* once as updated; when title and status are equal the row is not written
\* and not counted.
C28_SyncUpdatesOpenRow ==
    last.cmd = "sync" /\ last.ok =>
        /\ \A e \in MatchedOpenRows : \A pa \in ParsedAtRow(e) :
              IF DiffersFromRow(e, pa)
              THEN \E r \in actions :
                      /\ r.id = e.id
                      /\ r.title = pa.title
                      /\ StoredStatus(r) = pa.status
                      /\ r.created_at = e.created_at
                      /\ r.source_file = e.source_file
                      /\ r.line_number = e.line_number
                      /\ \A o \in actions : o.id = e.id => o = r
              ELSE e \in actions
        /\ (\A e \in before : ~IsTerminalRow(e)) =>
              last.updated = Cardinality({e \in MatchedOpenRows :
                                            \E pa \in ParsedAtRow(e) : DiffersFromRow(e, pa)})

\* a sync that found a Pending row whose line now holds another title and
\* the marker of InProgress, and wrote both
C28_Witness ==
    /\ last.cmd = "sync"
    /\ last.ok
    /\ last.updated = 1
    /\ \E e \in MatchedOpenRows : \E pa \in ParsedAtRow(e) : \E r \in actions :
          /\ StoredStatus(e) = "Pending"
          /\ pa.title # e.title
          /\ pa.status = "InProgress"
          /\ r.id = e.id
          /\ r.title = pa.title
          /\ StoredStatus(r) = "InProgress"

\* the parsed actions, with their file, that have no row of before at their
\* line
UnmatchedParsed ==
    {x \in UNION {{<<path, pa>> : pa \in ParsedSet(path)} : path \in Paths} :
        ~\E e \in before : e.source_file = x[1] /\ e.line_number = x[2].line_number}

\* the rows whose id no row of before has
FreshRows == {r \in actions : \A e \in before : e.id # r.id}

\* C29: in a sync run every parsed action without a stored row at its line
\* of its file gets exactly one new row, with a fresh id and the parsed
\* title, status, source_file and line_number, and is counted once as new;
\* from an empty table a sync over n parsed actions ends with n rows and
\* reports found = n, new = n, updated = 0.
C29_SyncCreatesUnmatched ==
    last.cmd = "sync" /\ last.ok =>
        /\ \A x \in UnmatchedParsed :
              Cardinality({r \in FreshRows :
                             /\ r.source_file = x[1]
                             /\ r.line_number = x[2].line_number
                             /\ r.title = x[2].title
                             /\ StoredStatus(r) = x[2].status}) = 1
        /\ Cardinality(FreshRows) = Cardinality(UnmatchedParsed)
        /\ \A r, o \in actions : r.id = o.id => r = o
        /\ last.new = Cardinality(UnmatchedParsed)
        /\ before = {} =>
              /\ Cardinality(actions) = TotalParsed(SomeOrder, 1)
              /\ last.found = Cardinality(actions)
              /\ last.new = Cardinality(actions)
              /\ last.updated = 0

\* a sync of an empty table over two parsed actions: two rows, found 2,
\* new 2, updated 0
C29_Witness ==
    /\ last.cmd = "sync"
    /\ last.ok
    /\ before = {}
    /\ Cardinality(actions) = 2
    /\ last.found = 2
    /\ last.new = 2
    /\ last.updated = 0
    /\ \A r \in actions : IsAnchored(r)

\* C30: a sync run that meets a plan file it cannot read skips that file and
\* goes on: it returns Ok, every parsed action of the readable files has a
\* row, and found counts the parsed actions of the readable files.
C30_SyncSkipsUnreadable ==
    (last.cmd = "sync" /\ \E path \in Paths : files[path].kind = "unreadable") =>
        /\ last.ok
        /\ last.found = TotalParsed(SomeOrder, 1)
        /\ \A path \in Paths : \A pa \in ParsedSet(path) :
              \E r \in actions : r.source_file = path /\ r.line_number = pa.line_number

\* C31: completed_at is never cleared: a row that had completed_at set when
\* a command began is still stored, with completed_at set, when the command
\* has ended, whichever of sync, start, skip and complete it was.
C31_CompletedAtNeverCleared ==
    \A e \in before :
        e.completed_at # NoTime =>
            /\ \E r \in actions : r.id = e.id
            /\ \A r \in actions : r.id = e.id => r.completed_at # NoTime

\* a start of a Completed row: the row is InProgress and still carries its
\* completion time
C31_Witness ==
    /\ last.cmd = "start"
    /\ \E e \in before : \E r \in actions :
          /\ r.id = e.id
          /\ StoredStatus(e) = "Completed"
          /\ e.completed_at # NoTime
          /\ StoredStatus(r) = "InProgress"
          /\ r.completed_at = e.completed_at

\* the last store call of the last article command, "" when it made none
LastCall == IF alast.calls = <<>> THEN "" ELSE alast.calls[Len(alast.calls)]

\* the notes an earlier approve wrote for the article
EarlierNotes(e) ==
    {n \in notes \ NotesWritten : n.title = e.title /\ n.content = NoteTemplate(e)}

\* C32: an approve that stops at the status write, after the note write,
\* leaves the note stored and the articles as they were; an approve run
\* again on that article (full id, a room that resolves) reaches its writes,
\* and when it returns Ok the article is Reviewed.
C32_ApproveRerunnable ==
    alast.cmd = "approve" =>
        /\ (~alast.ok /\ LastCall = "update_article") =>
              /\ articles = abefore
              /\ \E e \in find_article(abefore, aargs.id) : \E n \in NotesWritten :
                    n.title = e.title /\ n.content = NoteTemplate(e)
        /\ \A e \in find_article(abefore, aargs.id) :
              (/\ Len(aargs.id) = IdLen
               /\ e.status # "Reviewed"
               /\ EarlierNotes(e) # {}
               /\ TargetRooms(e) # {}
               /\ TargetRooms(e) # {NoRoom}) =>
                  /\ CallIndex("create_note") # 0
                  /\ ~alast.ok => LastCall \in {"create_note", "update_article"}
                  /\ alast.ok =>
                        \E r \in articles : r.id = e.id /\ StoredArticleStatus(r) = "Reviewed"

\* the second approve of an article whose first approve wrote the note and
\* failed at the status write: it returns Ok, the article is Reviewed and
\* both notes are stored
C32_Witness ==
    /\ alast.cmd = "approve"
    /\ alast.ok
    /\ Len(aargs.id) = IdLen
    /\ \E e \in find_article(abefore, aargs.id) :
          /\ e.status # "Reviewed"
          /\ EarlierNotes(e) # {}
          /\ NotesWritten # {}
          /\ \E r \in articles : r.id = e.id /\ StoredArticleStatus(r) = "Reviewed"

\* the processes that wrote the plan file, and the one that wrote last
Writers == {p \in ProcIds : procs[p].wrote # 0}

LastWriter == CHOOSE p \in Writers : \A q \in Writers : procs[q].wrote <= procs[p].wrote

\* the text a process computes from the text it read
TextWrittenBy(p) ==
    update_plan_markers(procs[p].text[1],
                        <<<<procs[p].found[1].line_number, TargetStatus(procs[p].cmd)>>>>)

\* C33: when two status commands on two Actions of one plan file run as
\* concurrent processes, in every interleaving both rows end with their new
\* status and the file holds the text of the process that wrote last; a
\* later sync leaves every Completed or Skipped row Completed or Skipped.
C33_StatusRace ==
    (~ProcsIdle /\ AllDone) =>
        /\ last.cmd = "init" =>
              /\ \A p \in ProcIds : \E r \in actions :
                    /\ r.id = procs[p].arg
                    /\ StoredStatus(r) = TargetStatus(procs[p].cmd)
              /\ Writers = ProcIds
              /\ files[RacePath] = RegularFile(TextWrittenBy(LastWriter))
        /\ last.cmd = "sync" =>
              \A e \in before : IsTerminalRow(e) =>
                  \E r \in actions : r.id = e.id /\ StoredStatus(r) = StoredStatus(e)

\* a sync after a race in which one marker update was lost: a row that is
\* Completed or Skipped sits on a line whose marker is not, and keeps its
\* status
C33_Witness ==
    /\ ~ProcsIdle
    /\ AllDone
    /\ last.cmd = "sync"
    /\ \E e \in before : \E r \in actions : \E pa \in ParsedAtRow(e) :
          /\ IsTerminalRow(e)
          /\ pa.status \notin {"Completed", "Skipped"}
          /\ r.id = e.id
          /\ StoredStatus(r) = StoredStatus(e)

\* C34: while two sync processes interleave at their store calls, the table
\* never holds two rows with the same (source_file, line_number).
C34_SyncRaceKeepsKeyUnique ==
    ~ProcsIdle =>
        \A r, o \in actions :
            (/\ IsAnchored(r)
             /\ r.source_file = o.source_file
             /\ r.line_number = o.line_number) => r.id = o.id

\* the line of the row parses to the stored status of the row
LineAgrees(r) == \A pa \in ParsedAtRow(r) : pa.status = StoredStatus(r)

\* C35: from the state right after a completed sync, status commands that
\* succeed, with no other edit of the files, leave the line of every
\* anchored row parsing to the row's stored status, and a following sync
\* reports new = 0 and updated = 0.
C35_WriteThroughConverges ==
    /\ \A r \in actions : IsAnchored(r) => LineAgrees(r)
    /\ last.cmd = "sync" => last.new = 0 /\ last.updated = 0

\* the rows the last status command can have run on
CommandRows ==
    {r \in actions : /\ StartsWith(r.id, io.arg)
                     /\ StoredStatus(r) = TargetStatus(last.cmd)}

\* C35, amended: from the state right after a completed sync, status
\* commands that succeed, with no other edit of the files, leave the line of
\* the row each command ran on, and the line of every anchored row that is
\* Pending or InProgress, parsing to the row's stored status; a row that is
\* Completed or Skipped may keep a marker of another status, which no sync
\* reconciles; and a following sync reports new = 0 and updated = 0.
C35_WriteThroughConvergesOpenRows ==
    /\ \A r \in actions : (IsAnchored(r) /\ ~IsTerminalRow(r)) => LineAgrees(r)
    /\ last.cmd \in StatusCommands =>
          \E r \in CommandRows : IsAnchored(r) /\ LineAgrees(r)
    /\ last.cmd = "sync" => last.new = 0 /\ last.updated = 0

\* a command has moved a row whose line now carries the new marker, while
\* another row, done since before the sync, keeps its older marker
C35_Witness ==
    /\ last.cmd = "complete"
    /\ last.ok
    /\ \E r \in CommandRows :
          /\ \E e \in before : e.id = r.id /\ StoredStatus(e) = "Pending"
          /\ ParsedAtRow(r) # {}
          /\ LineAgrees(r)
    /\ \E o \in actions :
          /\ IsTerminalRow(o)
          /\ o \in before
          /\ ~LineAgrees(o)

\* the statuses of the stored actions
StoredStatuses == {StoredStatus(r) : r \in actions}

\* C36: for every stored action, in whichever of the four statuses it is,
\* UserAction::marker() equals the canonical marker the rewriter writes for
\* that status, and the line `- <marker> <title>` parses to one action of
\* that status.
C36_MarkerRepresentationsAgree ==
    \A r \in actions :
        LET a == RowToAction(r)
            back == parse_user_marker(Bullet \o marker(a) \o <<" ">> \o a.title, 1)
        IN  /\ marker(a) = NewMarker(a.status)
            /\ back # <<>>
            /\ back[1].status = a.status

\* the table holds actions of all four statuses
C36_Witness ==
    StoredStatuses = {"Pending", "InProgress", "Completed", "Skipped"}

\* the commands of the review dashboard that write an article
DashCommands == {"review-summarize", "review-approve", "review-archive"}

\* Reviewed or Archived
IsTerminalArticle(r) == RowToArticle(r).status \in {"Reviewed", "Archived"}

\* C37: at the prompt of the review dashboard the store is as it was when
\* the loop listed the articles and every listed article is Pending or
\* Summarized in it; so a summarize, approve or archive given to the
\* dashboard acts on an article that was not Reviewed or Archived, and
\* leaves every article that was Reviewed or Archived as it was.
C37_DashboardSkipsTerminal ==
    /\ (~ProcsIdle /\ procs[1].pc = "prompt") =>
          /\ procs[1].seen = articles
          /\ \A a \in procs[1].listed :
                \E e \in articles : e.id = a.id /\ ~IsTerminalArticle(e)
    /\ alast.cmd \in DashCommands =>
          /\ \E e \in abefore : e.id = aargs.id /\ ~IsTerminalArticle(e)
          /\ \A e \in abefore : IsTerminalArticle(e) => e \in articles

\* the dashboard has archived a listed article while the store held an
\* article that was already Reviewed or Archived
C37_Witness ==
    /\ alast.cmd = "review-archive"
    /\ alast.ok
    /\ \E r \in articles : r.id = aargs.id /\ r \notin abefore /\ IsTerminalArticle(r)
    /\ \E e \in abefore : IsTerminalArticle(e)

\* the Reference notes that carry the title of an article
NotesTitled(e) == {n \in notes : n.note_type = "reference" /\ n.title = e.title}

====
